---- MODULE Spec2Model ----
(***************************************************************************)
(* Perception-to-decision pipeline of the assistive vision system:         *)
(*   - ObjectTracker / TrackedObject  (src/src/assistive_vision/           *)
(*     object_tracker.py)                                                  *)
(*   - NavigationGuide                (src/navigation_guide.py)            *)
(*   - DistanceChecker                (src/distance_checker.py)            *)
(*   - VoiceAlert                     (src/src/assistive_vision/           *)
(*     voice_alert.py), its callers in src/main.py and the alert loops of  *)
(*     src/tests/test_windows.py and src/tests/test_continuous_alerts.py   *)
(*                                                                         *)
(* Conventions of the model                                                *)
(*   - Python floats are modelled by exact rationals [num, den] (den > 0), *)
(*     compared by cross multiplication.                                   *)
(*   - confidences are in percent, distances in decimetres (0.1 m),        *)
(*     time in whole seconds (tenths of a second in the per-track alert    *)
(*     throttles).                                                         *)
(*   - a thread is a record with its position (pc) and its locals; one     *)
(*     action is one step between two reads or writes of shared state.     *)
(*   - math.sqrt is modelled exactly; the detection menus only contain     *)
(*     geometry for which every square root taken is an integer.           *)
(*   - a Python dict iterates in insertion order; track ids are inserted   *)
(*     in increasing order, so the track table iterates in increasing id.  *)
(***************************************************************************)
EXTENDS Integers, Sequences, FiniteSets, TLC

VARIABLES
    now,              \* time.time() as read by the last update call
    tracked_objects,  \* ObjectTracker.tracked_objects : track_id -> TrackedObject
    next_track_id,    \* ObjectTracker.next_track_id
    detections,       \* argument of the last update call (after distance fill-in)
    matching_result,  \* local matching_result of the last update call
    stable_objects,   \* list returned by the last update call
    pre_track_ids,    \* history: keys of tracked_objects when the last update began
    assigned_ids,     \* history: every track id ever given to a new track, in order
    run_length,       \* history: per live track, consecutive frames it was detected in
    best_run,         \* history: per live track, longest such run since creation
    frame_count,      \* history: number of update calls so far
    nav_input,        \* arguments of the last analyze_regions call
    nav_analysis,     \* value returned by the last analyze_regions call
    dc_prev,          \* the calculate_distance_info call before the last one
    dc_last,          \* arguments and outcome of the last calculate_distance_info call
    iou_call,         \* arguments and values of the last pair of calculate_iou calls
    wall_clock,       \* time.time() as read by the voice alert system, in seconds
    engine,           \* VoiceAlert.engine is set (the TTS engine was initialized)
    is_enabled,       \* VoiceAlert.is_enabled
    is_speaking,      \* VoiceAlert.is_speaking
    stop_thread,      \* VoiceAlert.stop_thread
    language,         \* VoiceAlert.language
    alert_queue,      \* VoiceAlert.alert_queue, oldest message first
    last_alerts,      \* VoiceAlert.last_alerts : key -> time
    last_direction_alert, \* VoiceAlert.last_direction_alert
    worker_thread,    \* VoiceAlert.worker_thread: slot of the thread object
    workers,          \* per worker thread slot, its position in _worker_loop
    producers,        \* per alert thread, its position in the call it runs
    cleaner,          \* position of the thread that runs cleanup
    put_count,        \* history: number of puts on alert_queue so far
    accepted,         \* history: the messages put, in order, with the time of the put
    dequeued,         \* history: seq of the messages the workers took, in order
    spoken,           \* history: the messages handed to engine.say, in order
    completed,        \* history: utterances that ran to their end
    interrupted,      \* history: utterances ended by engine.stop()
    drained,          \* history: messages clear_queue removed
    demo_clock,       \* time.time() as read by the throttles, in tenths of a second
    last_track_alerts,    \* last_track_alerts of the demo loop : track_id -> time
    demo_call,        \* the detection the demo loop handled last, and its outcome
    last_distance_alerts, \* TrackedObject.last_distance_alert of each track
    distance_call,    \* arguments and result of the last should_distance_alert call
    alert_call        \* the last should_alert / get_objects_for_alerts call and its result

tracker_vars == <<now, tracked_objects, next_track_id, detections, matching_result,
                  stable_objects, pre_track_ids, assigned_ids, run_length, best_run,
                  frame_count>>

nav_vars == <<nav_input, nav_analysis>>

dist_vars == <<dc_prev, dc_last>>

iou_vars == <<iou_call>>

voice_vars == <<wall_clock, engine, is_enabled, is_speaking, stop_thread, language,
                alert_queue, last_alerts, last_direction_alert, worker_thread, workers,
                producers, cleaner, put_count, accepted, dequeued, spoken, completed,
                interrupted, drained>>

throttle_vars == <<demo_clock, last_track_alerts, demo_call, last_distance_alerts,
                   distance_call, alert_call>>

vars == <<tracker_vars, nav_vars, dist_vars, iou_vars, voice_vars, throttle_vars>>

-----------------------------------------------------------------------------
(* Bounds of the model *)

StartTime == 20        \* clock value at construction (epoch time is far from 0)
MaxElapsed == 6        \* the clock is explored up to StartTime + MaxElapsed
MaxFrames == 5         \* update calls explored by TrackerSpec
MaxTrackId == 2        \* track ids created in TrackerLongSpec
MaxHits == 4           \* cap of consecutive_detections in TrackerLongSpec
MaxNavObjects == 3     \* detections per frame offered to analyze_regions
MaxCoord == 2          \* largest box coordinate offered to calculate_iou
MaxMessages == 2       \* puts on the alert queue explored by VoiceSpec and VoiceSeqSpec
MaxQueued == 11        \* puts on the alert queue explored by QueueSpec
MaxVoiceElapsed == 10  \* the wall clock is explored up to StartTime + MaxVoiceElapsed
MaxDemoElapsed == 125  \* tenths of a second explored by DemoSpec and DistanceAlertSpec
MaxHistoryFrames == 12 \* frames offered to the long-lived track of HistorySpec
MaxAlertElapsed == 24  \* seconds of tracker time explored by AlertSpec

-----------------------------------------------------------------------------
(* Arithmetic helpers *)

Max(a, b) == IF a >= b THEN a ELSE b
Min(a, b) == IF a <= b THEN a ELSE b
Abs(a) == IF a >= 0 THEN a ELSE 0 - a

RECURSIVE GCD(_, _)
GCD(a, b) == IF b = 0 THEN a ELSE GCD(b, a % b)

\* a float value num/den in lowest terms
Rat(n, d) == LET g == GCD(Abs(n), d) IN [num |-> n \div g, den |-> d \div g]
RatGT(a, b) == a.num * b.den > b.num * a.den
RatGE(a, b) == a.num * b.den >= b.num * a.den
RatEQ(a, b) == a.num * b.den = b.num * a.den
RatSub(a, b) == Rat(a.num * b.den - b.num * a.den, a.den * b.den)
RatMul(a, b) == Rat(a.num * b.num, a.den * b.den)
RatMin(a, b) == IF RatGT(a, b) THEN b ELSE a
RatMax(a, b) == IF RatGE(a, b) THEN a ELSE b

\* largest r in lo..hi with r * r <= n
RECURSIVE FloorSqrt(_, _, _)
FloorSqrt(n, lo, hi) ==
    IF lo >= hi THEN lo
    ELSE LET mid == (lo + hi + 1) \div 2
         IN IF mid * mid <= n THEN FloorSqrt(n, mid, hi) ELSE FloorSqrt(n, lo, mid - 1)

\* math.sqrt on the perfect squares the menus produce (undefined elsewhere)
Sqrt(n) == CHOOSE r \in {FloorSqrt(n, 0, 2000)} : r * r = n

Range(f) == {f[x] : x \in DOMAIN f}

RECURSIVE SeqSum(_)
SeqSum(s) == IF s = <<>> THEN 0 ELSE Head(s) + SeqSum(Tail(s))

Last(s) == s[Len(s)]

\* list(d.keys()) / iteration order of the track table
RECURSIVE SortedSeq(_)
SortedSeq(S) ==
    IF S = {} THEN <<>>
    ELSE LET m == CHOOSE x \in S : \A y \in S : x <= y
         IN <<m>> \o SortedSeq(S \ {m})

\* list.remove(x): drops the first occurrence
RECURSIVE RemoveFirst(_, _)
RemoveFirst(s, x) ==
    IF s = <<>> THEN <<>>
    ELSE IF Head(s) = x THEN Tail(s)
    ELSE <<Head(s)>> \o RemoveFirst(Tail(s), x)

\* Python None
None == [none |-> TRUE]

-----------------------------------------------------------------------------
(* Detector collaborator: the shape of one detection *)

TargetClassName(class_id) ==
    CASE class_id = 0 -> "person"
      [] class_id = 2 -> "car"
      [] class_id = 56 -> "chair"

Detection(class_id, confidence, x1, y1, x2, y2) ==
    [class_id |-> class_id,
     class_name |-> TargetClassName(class_id),
     confidence |-> confidence,
     bbox |-> <<x1, y1, x2, y2>>,
     center |-> <<(x1 + x2) \div 2, (y1 + y2) \div 2>>,
     width |-> x2 - x1,
     height |-> y2 - y1,
     area |-> (x2 - x1) * (y2 - y1)]

-----------------------------------------------------------------------------
(* TrackedObject *)

min_stable_frames == 3
HistoryLen == 10
DistanceHistoryLen == 5

\* mutant: a full history refuses the new entry
AppendBounded_KeepsOldest(s, x, n) == IF Len(s) >= n THEN s ELSE Append(s, x)

\* append with "if len > n: pop(0)"
AppendBounded(s, x, n) ==
    LET t == Append(s, x) IN IF Len(t) > n THEN Tail(t) ELSE t

TrackedObjectInit(detection, track_id, time) ==
    [track_id |-> track_id,
     class_id |-> detection.class_id,
     class_name |-> detection.class_name,
     positions |-> <<detection.center>>,
     bboxes |-> <<detection.bbox>>,
     areas |-> <<detection.area>>,
     confidences |-> <<detection.confidence>>,
     first_seen |-> time,
     last_seen |-> time,
     last_alert_time |-> 0,
     consecutive_detections |-> 1,
     missed_frames |-> 0,
     is_stable |-> FALSE,
     distances |-> <<>>,
     alert_count |-> 0,
     last_distance_alert |-> 0]

TrackedObjectUpdate_StableAtTwo(t, detection, time) ==
    LET hits == t.consecutive_detections + 1 IN
    [t EXCEPT
        !.positions = AppendBounded(@, detection.center, HistoryLen),
        !.bboxes = AppendBounded(@, detection.bbox, HistoryLen),
        !.areas = AppendBounded(@, detection.area, HistoryLen),
        !.confidences = AppendBounded(@, detection.confidence, HistoryLen),
        !.last_seen = time,
        !.consecutive_detections = hits,
        !.missed_frames = 0,
        !.is_stable = IF hits >= min_stable_frames - 1 THEN TRUE ELSE @,
        !.distances = IF "distance_meters" \in DOMAIN detection
                      THEN AppendBounded(@, detection.distance_meters, DistanceHistoryLen)
                      ELSE @]

TrackedObjectUpdate(t, detection, time) ==
    LET hits == t.consecutive_detections + 1 IN
    [t EXCEPT
        !.positions = AppendBounded(@, detection.center, HistoryLen),
        !.bboxes = AppendBounded(@, detection.bbox, HistoryLen),
        !.areas = AppendBounded(@, detection.area, HistoryLen),
        !.confidences = AppendBounded(@, detection.confidence, HistoryLen),
        !.last_seen = time,
        !.consecutive_detections = hits,
        !.missed_frames = 0,
        !.is_stable = IF hits >= min_stable_frames THEN TRUE ELSE @,
        !.distances = IF "distance_meters" \in DOMAIN detection
                      THEN AppendBounded(@, detection.distance_meters, DistanceHistoryLen)
                      ELSE @]

\* mutant: a missed frame keeps the hit counter
MissFrame_KeepsHits(t) == [t EXCEPT !.missed_frames = @ + 1]

MissFrame_ResetsStable(t) ==
    [t EXCEPT !.missed_frames = @ + 1, !.consecutive_detections = 0,
              !.is_stable = FALSE]

MissFrame(t) ==
    [t EXCEPT !.missed_frames = @ + 1, !.consecutive_detections = 0]

GetCurrentDetection(t, time) ==
    IF t.positions = <<>> THEN None
    ELSE
    LET current_bbox == Last(t.bboxes) IN
    [track_id |-> t.track_id,
     class_id |-> t.class_id,
     class_name |-> t.class_name,
     confidence |-> [num |-> SeqSum(t.confidences), den |-> Len(t.confidences)],
     bbox |-> current_bbox,
     center |-> Last(t.positions),
     width |-> current_bbox[3] - current_bbox[1],
     height |-> current_bbox[4] - current_bbox[2],
     area |-> Last(t.areas),
     distance_meters |-> IF t.distances # <<>>
                         THEN [num |-> SeqSum(t.distances), den |-> Len(t.distances)]
                         ELSE None,
     is_stable |-> t.is_stable,
     age |-> time - t.first_seen,
     consecutive_detections |-> t.consecutive_detections,
     alert_count |-> t.alert_count]

max_age == 5
max_missed == 10

IsExpired_AgeOnly(t, time) ==
    (time - t.last_seen) > max_age

IsExpired(t, time) ==
    LET age_expired == (time - t.last_seen) > max_age
        missed_expired == t.missed_frames > max_missed
    IN age_expired \/ missed_expired

-----------------------------------------------------------------------------
(* ObjectTracker *)

max_distance_threshold == 100

\* mutant: the union is the sum of the two areas
CalculateIou_SumOfAreas(box1, box2) ==
    LET x1_i == Max(box1[1], box2[1])
        y1_i == Max(box1[2], box2[2])
        x2_i == Min(box1[3], box2[3])
        y2_i == Min(box1[4], box2[4])
    IN IF x2_i <= x1_i \/ y2_i <= y1_i THEN Rat(0, 1)
       ELSE LET intersection == (x2_i - x1_i) * (y2_i - y1_i)
                area1 == (box1[3] - box1[1]) * (box1[4] - box1[2])
                area2 == (box2[3] - box2[1]) * (box2[4] - box2[2])
                union == area1 + area2
            IN IF union > 0 THEN Rat(intersection, union) ELSE Rat(0, 1)

\* IoU as a rational; 0.0 when the boxes do not overlap or the union is empty
CalculateIou(box1, box2) ==
    LET x1_i == Max(box1[1], box2[1])
        y1_i == Max(box1[2], box2[2])
        x2_i == Min(box1[3], box2[3])
        y2_i == Min(box1[4], box2[4])
    IN IF x2_i <= x1_i \/ y2_i <= y1_i THEN Rat(0, 1)
       ELSE LET intersection == (x2_i - x1_i) * (y2_i - y1_i)
                area1 == (box1[3] - box1[1]) * (box1[4] - box1[2])
                area2 == (box2[3] - box2[1]) * (box2[4] - box2[2])
                union == area1 + area2 - intersection
            IN IF union > 0 THEN Rat(intersection, union) ELSE Rat(0, 1)

CalculateDistance(center1, center2) ==
    Sqrt((center1[1] - center2[1]) * (center1[1] - center2[1])
         + (center1[2] - center2[2]) * (center1[2] - center2[2]))

\* iou * 0.7 + max(0, 1 - distance / 100) * 0.3
CombinedSimilarity(detection, last_detection) ==
    LET iou == CalculateIou(detection.bbox, last_detection.bbox)
        distance == CalculateDistance(detection.center, last_detection.center)
        closeness == Max(0, max_distance_threshold - distance)
    IN Rat(7 * iou.num * max_distance_threshold * 10 + 3 * closeness * iou.den * 10,
           iou.den * max_distance_threshold * 100)

Similarity_AnyClass(detection, last_detection) ==
    IF last_detection # None
    THEN CombinedSimilarity(detection, last_detection)
    ELSE Rat(0, 1)

\* one cell of the similarity matrix
Similarity(detection, last_detection) ==
    IF last_detection # None /\ detection.class_id = last_detection.class_id
    THEN CombinedSimilarity(detection, last_detection)
    ELSE Rat(0, 1)

MatchThreshold == Rat(3, 10)

\* inner loop of the greedy pass: index (1-based) of the best unused track, -1 if none
RECURSIVE FindBest_IgnoresUsed(_, _, _, _, _, _)
FindBest_IgnoresUsed(row, keys, used_tracks, j, best_similarity, best_track_idx) ==
    IF j > Len(keys) THEN best_track_idx
    ELSE IF RatGT(row[j], best_similarity)
         THEN FindBest_IgnoresUsed(row, keys, used_tracks, j + 1, row[j], j)
         ELSE FindBest_IgnoresUsed(row, keys, used_tracks, j + 1, best_similarity,
                                   best_track_idx)

\* mutant: a score equal to the best so far is taken
RECURSIVE FindBest_NotStrict(_, _, _, _, _, _)
FindBest_NotStrict(row, keys, used_tracks, j, best_similarity, best_track_idx) ==
    IF j > Len(keys) THEN best_track_idx
    ELSE IF keys[j] \notin used_tracks /\ RatGE(row[j], best_similarity)
         THEN FindBest_NotStrict(row, keys, used_tracks, j + 1, row[j], j)
         ELSE FindBest_NotStrict(row, keys, used_tracks, j + 1, best_similarity,
                                 best_track_idx)

RECURSIVE FindBest(_, _, _, _, _, _)
FindBest(row, keys, used_tracks, j, best_similarity, best_track_idx) ==
    IF j > Len(keys) THEN best_track_idx
    ELSE IF keys[j] \notin used_tracks /\ RatGT(row[j], best_similarity)
         THEN FindBest(row, keys, used_tracks, j + 1, row[j], j)
         ELSE FindBest(row, keys, used_tracks, j + 1, best_similarity, best_track_idx)

\* outer loop of the greedy pass over the detections i..Len(matrix)
RECURSIVE GreedyPass(_, _, _, _)
GreedyPass(matrix, keys, i, acc) ==
    IF i > Len(matrix) THEN acc
    ELSE LET best_track_idx == FindBest(matrix[i], keys, acc.used_tracks, 1,
                                        MatchThreshold, -1)
         IN IF best_track_idx >= 1
            THEN LET track_id == keys[best_track_idx]
                 IN GreedyPass(matrix, keys, i + 1,
                      [matches |-> Append(acc.matches, <<i, track_id>>),
                       unmatched_detections |-> acc.unmatched_detections,
                       unmatched_tracks |-> RemoveFirst(acc.unmatched_tracks, track_id),
                       used_tracks |-> acc.used_tracks \cup {track_id}])
            ELSE GreedyPass(matrix, keys, i + 1,
                      [acc EXCEPT !.unmatched_detections = Append(@, i)])

\* matches: the dict det_idx -> track_id as its item list <<det_idx, track_id>>
MatchDetections(table, dets, time) ==
    LET keys == SortedSeq(DOMAIN table)
        start == [matches |-> <<>>, unmatched_detections |-> <<>>,
                  unmatched_tracks |-> keys, used_tracks |-> {}]
    IN IF dets = <<>>
       THEN [matches |-> <<>>, unmatched_detections |-> <<>>, unmatched_tracks |-> keys]
       ELSE LET matrix == [i \in 1..Len(dets) |->
                             [j \in 1..Len(keys) |->
                                Similarity(dets[i],
                                           GetCurrentDetection(table[keys[j]], time))]]
                done == GreedyPass(matrix, keys, 1, start)
            IN [matches |-> done.matches,
                unmatched_detections |-> done.unmatched_detections,
                unmatched_tracks |-> done.unmatched_tracks]

TypicalAreas ==
    [person |-> 50000, car |-> 80000, bicycle |-> 25000,
     motorcycle |-> 30000, bus |-> 120000, truck |-> 100000]

\* sqrt(typical_area / max(area, 1000)) * 3 metres, clamped to 1..50 m, in decimetres
EstimateDistance(detection) ==
    IF detection.class_name \in DOMAIN TypicalAreas
    THEN LET typical_area == TypicalAreas[detection.class_name]
             estimated_distance ==
                 Sqrt((900 * typical_area) \div Max(detection.area, 1000))
         IN Max(10, Min(500, estimated_distance))
    ELSE 50

NextTrackId_Stuck(n) == n

NextTrackId(n) == n + 1

\* "for det_idx, track_id in matches.items(): tracked_objects[track_id].update(...)"
RECURSIVE UpdateMatched(_, _, _, _)
UpdateMatched(table, matches, dets, time) ==
    IF matches = <<>> THEN table
    ELSE LET det_idx == Head(matches)[1]
             track_id == Head(matches)[2]
         IN UpdateMatched(
              [table EXCEPT ![track_id] = TrackedObjectUpdate(@, dets[det_idx], time)],
              Tail(matches), dets, time)

\* "for det_idx in unmatched_detections: create a track, next_track_id += 1"
RECURSIVE CreateTracks(_, _, _, _)
CreateTracks(acc, unmatched_detections, dets, time) ==
    IF unmatched_detections = <<>> THEN acc
    ELSE LET new_track == TrackedObjectInit(dets[Head(unmatched_detections)],
                                            acc.next_track_id, time)
         IN CreateTracks(
              [table |-> (acc.next_track_id :> new_track) @@ acc.table,
               next_track_id |-> NextTrackId(acc.next_track_id),
               created |-> Append(acc.created, acc.next_track_id)],
              Tail(unmatched_detections), dets, time)

\* mutant: the tracks created in this call are marked missed as well
MarkMissed_NewTracksToo(table, unmatched_tracks) ==
    [id \in DOMAIN table |->
        IF id \in Range(unmatched_tracks) \/ Len(table[id].positions) = 1
        THEN MissFrame(table[id]) ELSE table[id]]

\* "for track_id in unmatched_tracks: tracked_objects[track_id].miss_frame()"
RECURSIVE MarkMissed(_, _)
MarkMissed(table, unmatched_tracks) ==
    IF unmatched_tracks = <<>> THEN table
    ELSE MarkMissed([table EXCEPT ![Head(unmatched_tracks)] = MissFrame(@)],
                    Tail(unmatched_tracks))

RemoveExpired(table, time) ==
    LET keep == {id \in DOMAIN table : ~IsExpired(table[id], time)}
    IN [id \in keep |-> table[id]]

StableObjects_All(table, time) ==
    LET keys == SortedSeq(DOMAIN table)
        F[k \in 0..Len(keys)] ==
            IF k = 0 THEN <<>>
            ELSE LET detection == GetCurrentDetection(table[keys[k]], time)
                 IN IF detection # None
                    THEN Append(F[k - 1], detection) ELSE F[k - 1]
    IN F[Len(keys)]

\* "for tracked_obj in tracked_objects.values(): if tracked_obj.is_stable: ..."
StableObjects(table, time) ==
    LET keys == SortedSeq(DOMAIN table)
        F[k \in 0..Len(keys)] ==
            IF k = 0 THEN <<>>
            ELSE LET tracked_obj == table[keys[k]]
                     detection == GetCurrentDetection(tracked_obj, time)
                 IN IF tracked_obj.is_stable /\ detection # None
                    THEN Append(F[k - 1], detection) ELSE F[k - 1]
    IN F[Len(keys)]

\* mutant: a detection that carries no distance is tracked as it comes
WithDistance_LeavesMissing(detection) == detection

\* "if 'distance_meters' not in detection: detection['distance_meters'] = ..."
WithDistance(detection) ==
    IF "distance_meters" \in DOMAIN detection THEN detection
    ELSE [f \in DOMAIN detection \cup {"distance_meters"} |->
            IF f = "distance_meters" THEN EstimateDistance(detection)
            ELSE detection[f]]

\* the value of every tracker variable after ObjectTracker.update(raw) at time "time"
UpdateResult(table, next_id, raw, time) ==
    LET dets == [i \in 1..Len(raw) |-> WithDistance(raw[i])]
        result == MatchDetections(table, dets, time)
        matched == UpdateMatched(table, result.matches, dets, time)
        grown == CreateTracks([table |-> matched, next_track_id |-> next_id,
                               created |-> <<>>],
                              result.unmatched_detections, dets, time)
        missed == MarkMissed(grown.table, result.unmatched_tracks)
        kept == RemoveExpired(missed, time)
    IN [detections |-> dets,
        matching_result |-> result,
        tracked_objects |-> kept,
        next_track_id |-> grown.next_track_id,
        created |-> grown.created,
        stable_objects |-> StableObjects(kept, time)]

MatchedIds(result) == {result.matches[k][2] : k \in 1..Len(result.matches)}

\* ObjectTracker.update(raw), called dt seconds after the previous call
Update(raw, dt) ==
    \E time \in {now + dt} :
    \E r \in {UpdateResult(tracked_objects, next_track_id, raw, time)} :
    \E created \in {Range(r.created)}, matched \in {MatchedIds(r.matching_result)} :
    LET run(id) == IF id \in created THEN 1
                   ELSE IF id \in matched THEN run_length[id] + 1
                   ELSE 0
    IN /\ now' = time
       /\ detections' = r.detections
       /\ matching_result' = r.matching_result
       /\ tracked_objects' = r.tracked_objects
       /\ next_track_id' = r.next_track_id
       /\ stable_objects' = r.stable_objects
       /\ pre_track_ids' = DOMAIN tracked_objects
       /\ assigned_ids' = assigned_ids \o r.created
       /\ run_length' = [id \in DOMAIN r.tracked_objects |-> run(id)]
       /\ best_run' = [id \in DOMAIN r.tracked_objects |->
                         IF id \in DOMAIN best_run /\ id \notin created
                         THEN Max(best_run[id], run(id)) ELSE run(id)]

TrackerInit ==
    /\ now = StartTime
    /\ tracked_objects = <<>>
    /\ next_track_id = 1
    /\ detections = <<>>
    /\ matching_result = [matches |-> <<>>, unmatched_detections |-> <<>>,
                          unmatched_tracks |-> <<>>]
    /\ stable_objects = <<>>
    /\ pre_track_ids = {}
    /\ assigned_ids = <<>>
    /\ run_length = <<>>
    /\ best_run = <<>>
    /\ frame_count = 0

-----------------------------------------------------------------------------
(* NavigationGuide *)

MAX_OBJECTS_PER_ZONE == 3

DensityThresholds == [low |-> Rat(1, 10), medium |-> Rat(2, 10), high |-> Rat(4, 10)]

ZoneNames == <<"left", "center", "right">>

NoDirection == "none"

\* int(width * 0.33), int(width * 0.67)
CalculateZoneBoundaries(width, height) ==
    LET left_boundary == (width * 33) \div 100
        right_boundary == (width * 67) \div 100
    IN [left |-> [x_min |-> 0, x_max |-> left_boundary,
                  y_min |-> 0, y_max |-> height,
                  center_x |-> left_boundary \div 2],
        center |-> [x_min |-> left_boundary, x_max |-> right_boundary,
                    y_min |-> 0, y_max |-> height,
                    center_x |-> (left_boundary + right_boundary) \div 2],
        right |-> [x_min |-> right_boundary, x_max |-> width,
                   y_min |-> 0, y_max |-> height,
                   center_x |-> (right_boundary + width) \div 2]]

IsObjectInZone(detection, zone_bounds) ==
    LET center_x == detection.center[1]
        center_y == detection.center[2]
        x1 == detection.bbox[1]
        y1 == detection.bbox[2]
        x2 == detection.bbox[3]
        y2 == detection.bbox[4]
    IN IF /\ zone_bounds.x_min <= center_x /\ center_x <= zone_bounds.x_max
          /\ zone_bounds.y_min <= center_y /\ center_y <= zone_bounds.y_max
       THEN TRUE
       ELSE LET overlap_x == Max(0, Min(x2, zone_bounds.x_max) - Max(x1, zone_bounds.x_min))
                overlap_y == Max(0, Min(y2, zone_bounds.y_max) - Max(y1, zone_bounds.y_min))
                overlap_area == overlap_x * overlap_y
                object_area == (x2 - x1) * (y2 - y1)
            IN IF object_area > 0 THEN 2 * overlap_area > object_area ELSE FALSE

\* the risk score one member object contributes
RiskScore(detection, frame_shape) ==
    IF "urgency" \in DOMAIN detection THEN detection.urgency
    ELSE LET frame_area == frame_shape[1] * frame_shape[2]
         IN IF 100 * detection.area > 15 * frame_area THEN 3
            ELSE IF 100 * detection.area > 8 * frame_area THEN 2
            ELSE 1

RECURSIVE SeqMax(_)
SeqMax(s) == IF Len(s) = 1 THEN s[1] ELSE Max(Head(s), SeqMax(Tail(s)))

\* mutant: a single high-risk object does not block the zone
IsZoneBlocked_NoRiskRule(zone_objects, density, risk_scores) ==
    IF zone_objects = <<>> THEN FALSE
    ELSE IF RatGT(density, DensityThresholds.high) THEN TRUE
    ELSE IF Len(zone_objects) >= MAX_OBJECTS_PER_ZONE THEN TRUE
    ELSE IF /\ RatGT(density, DensityThresholds.medium)
            /\ risk_scores # <<>>
            /\ RatGE(Rat(SeqSum(risk_scores), Len(risk_scores)), Rat(2, 1)) THEN TRUE
    ELSE FALSE

\* mutant: medium density with medium mean risk does not block the zone
IsZoneBlocked_NoMediumRule(zone_objects, density, risk_scores) ==
    IF zone_objects = <<>> THEN FALSE
    ELSE IF RatGT(density, DensityThresholds.high) THEN TRUE
    ELSE IF risk_scores # <<>> /\ SeqMax(risk_scores) >= 3 THEN TRUE
    ELSE IF Len(zone_objects) >= MAX_OBJECTS_PER_ZONE THEN TRUE
    ELSE FALSE

IsZoneBlocked(zone_objects, density, risk_scores) ==
    IF zone_objects = <<>> THEN FALSE
    ELSE IF RatGT(density, DensityThresholds.high) THEN TRUE
    ELSE IF risk_scores # <<>> /\ SeqMax(risk_scores) >= 3 THEN TRUE
    ELSE IF Len(zone_objects) >= MAX_OBJECTS_PER_ZONE THEN TRUE
    ELSE IF /\ RatGT(density, DensityThresholds.medium)
            /\ risk_scores # <<>>
            /\ RatGE(Rat(SeqSum(risk_scores), Len(risk_scores)), Rat(2, 1)) THEN TRUE
    ELSE FALSE

RiskLevel(avg_risk, density) ==
    IF RatGE(avg_risk, Rat(5, 2)) \/ RatGT(density, DensityThresholds.high) THEN "high"
    ELSE IF RatGE(avg_risk, Rat(3, 2)) \/ RatGT(density, DensityThresholds.medium)
         THEN "medium"
    ELSE IF RatGE(avg_risk, Rat(1, 2)) \/ RatGT(density, DensityThresholds.low)
         THEN "low"
    ELSE "safe"

AnalyzeZone(dets, zone_bounds, frame_shape) ==
    LET zone_area == (zone_bounds.x_max - zone_bounds.x_min)
                       * (zone_bounds.y_max - zone_bounds.y_min)
        zone_objects == SelectSeq(dets, LAMBDA d : IsObjectInZone(d, zone_bounds))
        total_area == SeqSum([k \in 1..Len(zone_objects) |-> zone_objects[k].area])
        risk_scores == [k \in 1..Len(zone_objects) |->
                          RiskScore(zone_objects[k], frame_shape)]
        density == IF zone_area > 0 THEN Rat(total_area, zone_area) ELSE Rat(0, 1)
        blocked == IsZoneBlocked(zone_objects, density, risk_scores)
        avg_risk == IF risk_scores # <<>>
                    THEN Rat(SeqSum(risk_scores), Len(risk_scores)) ELSE Rat(0, 1)
        risk_level == RiskLevel(avg_risk, density)
    IN [object_count |-> Len(zone_objects),
        objects |-> zone_objects,
        total_area |-> total_area,
        density |-> density,
        blocked |-> blocked,
        risk_level |-> risk_level,
        avg_risk_score |-> avg_risk,
        passable |-> ~blocked /\ risk_level \in {"safe", "low"}]

RiskPenalty(risk_level) ==
    CASE risk_level = "safe" -> Rat(0, 1)
      [] risk_level = "low" -> Rat(1, 10)
      [] risk_level = "medium" -> Rat(3, 10)
      [] risk_level = "high" -> Rat(6, 10)
      [] OTHER -> Rat(5, 10)

CalculateZoneScore(zone_data) ==
    IF zone_data.blocked THEN Rat(0, 1)
    ELSE LET after_risk == RatSub(Rat(1, 1), RiskPenalty(zone_data.risk_level))
             object_penalty == RatMin(Rat(2, 10), Rat(zone_data.object_count * 5, 100))
             after_objects == RatSub(after_risk, object_penalty)
             density_penalty == RatMin(Rat(3, 10), RatMul(zone_data.density, Rat(1, 2)))
             base_score == RatSub(after_objects, density_penalty)
         IN RatMax(Rat(0, 1), base_score)

\* mutant: the higher-scoring side is chosen whether or not it is passable
ChooseDirection_HigherScoreSide(left_zone, center_zone, right_zone) ==
    IF center_zone.passable
    THEN [direction |-> "forward", confidence |-> Rat(9, 10)]
    ELSE IF center_zone.blocked
    THEN LET left_score == CalculateZoneScore(left_zone)
             right_score == CalculateZoneScore(right_zone)
         IN IF RatGT(left_score, right_score)
            THEN [direction |-> "left", confidence |-> RatMin(Rat(8, 10), left_score)]
            ELSE IF RatGT(right_score, left_score)
            THEN [direction |-> "right", confidence |-> RatMin(Rat(8, 10), right_score)]
            ELSE IF left_zone.passable
            THEN [direction |-> "left", confidence |-> Rat(6, 10)]
            ELSE IF right_zone.passable
            THEN [direction |-> "right", confidence |-> Rat(6, 10)]
            ELSE [direction |-> "stop", confidence |-> Rat(9, 10)]
    ELSE [direction |-> NoDirection, confidence |-> Rat(0, 1)]

\* mutant: forward whenever the center zone is not blocked
ChooseDirection_ForwardUnlessBlocked(left_zone, center_zone, right_zone) ==
    IF ~center_zone.blocked
    THEN [direction |-> "forward", confidence |-> Rat(9, 10)]
    ELSE LET left_score == CalculateZoneScore(left_zone)
             right_score == CalculateZoneScore(right_zone)
         IN IF RatGT(left_score, right_score) /\ left_zone.passable
            THEN [direction |-> "left", confidence |-> RatMin(Rat(8, 10), left_score)]
            ELSE IF RatGT(right_score, left_score) /\ right_zone.passable
            THEN [direction |-> "right", confidence |-> RatMin(Rat(8, 10), right_score)]
            ELSE IF left_zone.passable
            THEN [direction |-> "left", confidence |-> Rat(6, 10)]
            ELSE IF right_zone.passable
            THEN [direction |-> "right", confidence |-> Rat(6, 10)]
            ELSE [direction |-> "stop", confidence |-> Rat(9, 10)]

\* mutant: on equal scores the right zone is preferred
ChooseDirection_RightOnTie(left_zone, center_zone, right_zone) ==
    IF center_zone.passable
    THEN [direction |-> "forward", confidence |-> Rat(9, 10)]
    ELSE IF center_zone.blocked
    THEN LET left_score == CalculateZoneScore(left_zone)
             right_score == CalculateZoneScore(right_zone)
         IN IF RatGT(left_score, right_score) /\ left_zone.passable
            THEN [direction |-> "left", confidence |-> RatMin(Rat(8, 10), left_score)]
            ELSE IF RatGT(right_score, left_score) /\ right_zone.passable
            THEN [direction |-> "right", confidence |-> RatMin(Rat(8, 10), right_score)]
            ELSE IF right_zone.passable
            THEN [direction |-> "right", confidence |-> Rat(6, 10)]
            ELSE IF left_zone.passable
            THEN [direction |-> "left", confidence |-> Rat(6, 10)]
            ELSE [direction |-> "stop", confidence |-> Rat(9, 10)]
    ELSE [direction |-> NoDirection, confidence |-> Rat(0, 1)]

\* mutant: with no passable side the user is still sent to the better-scoring side
ChooseDirection_NeverStops(left_zone, center_zone, right_zone) ==
    IF center_zone.passable
    THEN [direction |-> "forward", confidence |-> Rat(9, 10)]
    ELSE IF center_zone.blocked
    THEN LET left_score == CalculateZoneScore(left_zone)
             right_score == CalculateZoneScore(right_zone)
         IN IF RatGT(left_score, right_score) /\ left_zone.passable
            THEN [direction |-> "left", confidence |-> RatMin(Rat(8, 10), left_score)]
            ELSE IF RatGT(right_score, left_score) /\ right_zone.passable
            THEN [direction |-> "right", confidence |-> RatMin(Rat(8, 10), right_score)]
            ELSE IF left_zone.passable
            THEN [direction |-> "left", confidence |-> Rat(6, 10)]
            ELSE IF right_zone.passable
            THEN [direction |-> "right", confidence |-> Rat(6, 10)]
            ELSE [direction |-> "left", confidence |-> Rat(6, 10)]
    ELSE [direction |-> NoDirection, confidence |-> Rat(0, 1)]

\* mutant: with no passable side the user is sent straight on
ChooseDirection_ForwardWhenNoSide(left_zone, center_zone, right_zone) ==
    IF center_zone.passable
    THEN [direction |-> "forward", confidence |-> Rat(9, 10)]
    ELSE IF center_zone.blocked
    THEN LET left_score == CalculateZoneScore(left_zone)
             right_score == CalculateZoneScore(right_zone)
         IN IF RatGT(left_score, right_score) /\ left_zone.passable
            THEN [direction |-> "left", confidence |-> RatMin(Rat(8, 10), left_score)]
            ELSE IF RatGT(right_score, left_score) /\ right_zone.passable
            THEN [direction |-> "right", confidence |-> RatMin(Rat(8, 10), right_score)]
            ELSE IF left_zone.passable
            THEN [direction |-> "left", confidence |-> Rat(6, 10)]
            ELSE IF right_zone.passable
            THEN [direction |-> "right", confidence |-> Rat(6, 10)]
            ELSE [direction |-> "forward", confidence |-> Rat(9, 10)]
    ELSE [direction |-> NoDirection, confidence |-> Rat(0, 1)]

\* the direction / confidence part of _make_navigation_decision
ChooseDirection(left_zone, center_zone, right_zone) ==
    IF center_zone.passable
    THEN [direction |-> "forward", confidence |-> Rat(9, 10)]
    ELSE IF center_zone.blocked
    THEN LET left_score == CalculateZoneScore(left_zone)
             right_score == CalculateZoneScore(right_zone)
         IN IF RatGT(left_score, right_score) /\ left_zone.passable
            THEN [direction |-> "left", confidence |-> RatMin(Rat(8, 10), left_score)]
            ELSE IF RatGT(right_score, left_score) /\ right_zone.passable
            THEN [direction |-> "right", confidence |-> RatMin(Rat(8, 10), right_score)]
            ELSE IF left_zone.passable
            THEN [direction |-> "left", confidence |-> Rat(6, 10)]
            ELSE IF right_zone.passable
            THEN [direction |-> "right", confidence |-> Rat(6, 10)]
            ELSE [direction |-> "stop", confidence |-> Rat(9, 10)]
    ELSE [direction |-> NoDirection, confidence |-> Rat(0, 1)]

\* mutant: every zone that is not blocked is listed as safe
MakeNavigationDecision_SafeUnlessBlocked(zone_analysis) ==
    LET left_zone == zone_analysis.left
        center_zone == zone_analysis.center
        right_zone == zone_analysis.right
        safe_zones == SelectSeq(ZoneNames, LAMBDA z : ~zone_analysis[z].blocked)
        risk_levels == {zone_analysis[z].risk_level : z \in Range(ZoneNames)}
        overall_risk == IF "high" \in risk_levels THEN "high"
                        ELSE IF "medium" \in risk_levels THEN "medium"
                        ELSE IF "low" \in risk_levels THEN "low"
                        ELSE "safe"
        choice == ChooseDirection(left_zone, center_zone, right_zone)
    IN [direction |-> choice.direction,
        confidence |-> choice.confidence,
        safe_zones |-> safe_zones,
        risk_level |-> overall_risk]

MakeNavigationDecision(zone_analysis) ==
    LET left_zone == zone_analysis.left
        center_zone == zone_analysis.center
        right_zone == zone_analysis.right
        safe_zones == SelectSeq(ZoneNames, LAMBDA z : zone_analysis[z].passable)
        risk_levels == {zone_analysis[z].risk_level : z \in Range(ZoneNames)}
        overall_risk == IF "high" \in risk_levels THEN "high"
                        ELSE IF "medium" \in risk_levels THEN "medium"
                        ELSE IF "low" \in risk_levels THEN "low"
                        ELSE "safe"
        choice == ChooseDirection(left_zone, center_zone, right_zone)
    IN [direction |-> choice.direction,
        confidence |-> choice.confidence,
        safe_zones |-> safe_zones,
        risk_level |-> overall_risk]

GetEmptyAnalysis(frame_shape) ==
    LET empty_zone == [object_count |-> 0, objects |-> <<>>, total_area |-> 0,
                       density |-> Rat(0, 1), blocked |-> FALSE, risk_level |-> "safe",
                       avg_risk_score |-> Rat(0, 1), passable |-> TRUE]
    IN [zones |-> [left |-> empty_zone, center |-> empty_zone, right |-> empty_zone],
        center_blocked |-> FALSE,
        recommended_direction |-> "forward",
        confidence |-> Rat(1, 1),
        safe_zones |-> <<"left", "center", "right">>,
        risk_level |-> "safe",
        total_objects |-> 0]

\* mutant: an empty detection list goes through the zone analysis as well
AnalyzeRegions_NoEmptyShortcut(dets, frame_shape) ==
    LET height == frame_shape[1]
        width == frame_shape[2]
        zones == CalculateZoneBoundaries(width, height)
        zone_analysis == [z \in Range(ZoneNames) |->
                            AnalyzeZone(dets, zones[z], frame_shape)]
        navigation_decision == MakeNavigationDecision(zone_analysis)
    IN [zones |-> zone_analysis,
        center_blocked |-> zone_analysis.center.blocked,
        recommended_direction |-> navigation_decision.direction,
        confidence |-> navigation_decision.confidence,
        safe_zones |-> navigation_decision.safe_zones,
        risk_level |-> navigation_decision.risk_level,
        total_objects |-> Len(dets)]

\* frame_shape = (height, width, channels)
AnalyzeRegions(dets, frame_shape) ==
    IF dets = <<>> THEN GetEmptyAnalysis(frame_shape)
    ELSE LET height == frame_shape[1]
             width == frame_shape[2]
             zones == CalculateZoneBoundaries(width, height)
             zone_analysis == [z \in Range(ZoneNames) |->
                                 AnalyzeZone(dets, zones[z], frame_shape)]
             navigation_decision == MakeNavigationDecision(zone_analysis)
         IN [zones |-> zone_analysis,
             center_blocked |-> zone_analysis.center.blocked,
             recommended_direction |-> navigation_decision.direction,
             confidence |-> navigation_decision.confidence,
             safe_zones |-> navigation_decision.safe_zones,
             risk_level |-> navigation_decision.risk_level,
             total_objects |-> Len(dets)]

\* (height, width, channels) of the frames offered to the navigation engine
NavFrameShape == <<10, 30, 3>>
NavFrameShapes == {NavFrameShape, <<12, 40, 3>>}

NavInit ==
    /\ nav_input = [detections |-> <<>>, frame_shape |-> NavFrameShape]
    /\ nav_analysis = None

-----------------------------------------------------------------------------
(* DistanceChecker *)

\* self.distance_thresholds, in percent of the frame area
DistanceThresholds ==
    [person |-> [very_close |-> 15, close |-> 8, medium |-> 4],
     car |-> [very_close |-> 25, close |-> 15, medium |-> 8],
     bicycle |-> [very_close |-> 12, close |-> 6, medium |-> 3],
     motorcycle |-> [very_close |-> 12, close |-> 6, medium |-> 3],
     bus |-> [very_close |-> 35, close |-> 25, medium |-> 15],
     truck |-> [very_close |-> 35, close |-> 25, medium |-> 15],
     default |-> [very_close |-> 12, close |-> 6, medium |-> 3]]

\* self.distance_thresholds.get(class_name, self.distance_thresholds['default'])
ThresholdsOf(class_name) ==
    IF class_name \in DOMAIN DistanceThresholds THEN DistanceThresholds[class_name]
    ELSE DistanceThresholds["default"]

\* outcome of a call that raises instead of returning
ZeroDivisionError == [raised |-> "ZeroDivisionError"]

\* object_area / frame_area for a non-zero frame_area
RelativeSize(object_area, frame_area) ==
    IF frame_area > 0 THEN Rat(object_area, frame_area)
    ELSE Rat(0 - object_area, 0 - frame_area)

\* close and medium rungs give each other's urgency
DistanceLevel_SwappedUrgency(relative_size, thresholds) ==
    IF RatGE(relative_size, Rat(thresholds.very_close, 100))
    THEN [distance_level |-> "very_close", is_close |-> TRUE, urgency |-> 3]
    ELSE IF RatGE(relative_size, Rat(thresholds.close, 100))
    THEN [distance_level |-> "close", is_close |-> TRUE, urgency |-> 1]
    ELSE IF RatGE(relative_size, Rat(thresholds.medium, 100))
    THEN [distance_level |-> "medium", is_close |-> TRUE, urgency |-> 2]
    ELSE [distance_level |-> "far", is_close |-> FALSE, urgency |-> 0]

\* a size equal to a threshold falls on the rung below
DistanceLevel_StrictlyAbove(relative_size, thresholds) ==
    IF RatGT(relative_size, Rat(thresholds.very_close, 100))
    THEN [distance_level |-> "very_close", is_close |-> TRUE, urgency |-> 3]
    ELSE IF RatGT(relative_size, Rat(thresholds.close, 100))
    THEN [distance_level |-> "close", is_close |-> TRUE, urgency |-> 2]
    ELSE IF RatGT(relative_size, Rat(thresholds.medium, 100))
    THEN [distance_level |-> "medium", is_close |-> TRUE, urgency |-> 1]
    ELSE [distance_level |-> "far", is_close |-> FALSE, urgency |-> 0]

\* the if / elif ladder of calculate_distance_info
DistanceLevel(relative_size, thresholds) ==
    IF RatGE(relative_size, Rat(thresholds.very_close, 100))
    THEN [distance_level |-> "very_close", is_close |-> TRUE, urgency |-> 3]
    ELSE IF RatGE(relative_size, Rat(thresholds.close, 100))
    THEN [distance_level |-> "close", is_close |-> TRUE, urgency |-> 2]
    ELSE IF RatGE(relative_size, Rat(thresholds.medium, 100))
    THEN [distance_level |-> "medium", is_close |-> TRUE, urgency |-> 1]
    ELSE [distance_level |-> "far", is_close |-> FALSE, urgency |-> 0]

\* the division has no guard: a zero frame_area raises, a negative one gives a
\* negative relative_size
CalculateDistanceInfo(detection, frame_area) ==
    IF frame_area = 0 THEN ZeroDivisionError
    ELSE LET relative_size == RelativeSize(detection.area, frame_area)
             level == DistanceLevel(relative_size, ThresholdsOf(detection.class_name))
         IN [relative_size |-> relative_size,
             distance_level |-> level.distance_level,
             is_close |-> level.is_close,
             urgency |-> level.urgency,
             size_percentage |-> RatMul(relative_size, Rat(100, 1))]

DistInit ==
    /\ dc_prev = None
    /\ dc_last = None

\* no calculate_iou call has been observed yet
IouInit == iou_call = None

-----------------------------------------------------------------------------
(* VoiceAlert *)

ALERT_INTERVAL == 10
DIRECTION_ALERT_INTERVAL == 10
GENERAL_ANNOUNCE_INTERVAL == 10
MAX_ALERT_QUEUE_SIZE == 10

\* threads that call the producer operations (main.py starts one handle_alerts
\* thread per frame) and slots for the worker threads start_worker_thread creates
Producers == {1, 2}
WorkerIds == {1, 2}

Idle == [pc |-> "idle"]
NotStarted == [pc |-> "not_started"]

\* thread.is_alive()
IsAlive(w) == workers[w].pc \notin {"not_started", "exited"}

\* mutant: start_worker_thread without the test of the running thread
WorkerIsAlive_Never == FALSE

\* self.worker_thread and self.worker_thread.is_alive(); worker_thread is the
\* slot of the thread object, 0 for None
WorkerIsAlive == worker_thread # 0 /\ IsAlive(worker_thread)

\* the worker threads inside engine.say / engine.runAndWait
Speaking == {w \in WorkerIds : workers[w].pc = "speaking"}

\* the message the speech engine is busy with, 0 when it is idle
CurrentUtterance ==
    IF Speaking = {} THEN 0
    ELSE workers[CHOOSE w \in Speaking : TRUE].message.seq

\* the dict put on the queue (text is the key of the phrase, track_id is 0
\* when there is none); seq (the number of the put) and during (the
\* utterance in progress at the time of the put) are history fields
AlertMessage(text, type, priority, track_id) ==
    [text |-> text, type |-> type, priority |-> priority, track_id |-> track_id,
     seq |-> put_count + 1, during |-> CurrentUtterance]

\* Queue.put on the unbounded queue: never blocks, never fails
Put(message) ==
    /\ alert_queue' = Append(alert_queue, message)
    /\ put_count' = put_count + 1
    /\ accepted' = Append(accepted, [text |-> message.text, type |-> message.type,
                                     time |-> wall_clock,
                                     seq |-> message.seq,
                                     priority |-> message.priority,
                                     during |-> message.during])

\* mutant: the most urgent message is taken first
QueueGet_MostUrgentFirst(queue) ==
    LET k == CHOOSE i \in 1..Len(queue) :
                 \A j \in 1..Len(queue) :
                     \/ queue[j].priority < queue[i].priority
                     \/ (queue[j].priority = queue[i].priority /\ i <= j)
    IN [item |-> queue[k],
        rest |-> [i \in 1..(Len(queue) - 1) |-> IF i < k THEN queue[i] ELSE queue[i + 1]]]

\* mutant: the take empties the queue
QueueGet_DropsRest(queue) == [item |-> Head(queue), rest |-> <<>>]

\* Queue.get on a non-empty queue: the oldest message
QueueGet(queue) == [item |-> Head(queue), rest |-> Tail(queue)]

\* self.alert_queue.qsize() >= self.config.MAX_ALERT_QUEUE_SIZE
IsQueueFull == Len(alert_queue) >= MAX_ALERT_QUEUE_SIZE

\* last_alerts.get(key, 0)
LastAlert(key) == IF key \in DOMAIN last_alerts THEN last_alerts[key] ELSE 0

\* mutant: the write refreshes every entry of the map
SetLastAlert_EveryEntry(key, time) == [k \in DOMAIN last_alerts \cup {key} |-> time]

\* last_alerts[key] = time
SetLastAlert(key, time) ==
    [k \in DOMAIN last_alerts \cup {key} |-> IF k = key THEN time ELSE last_alerts[k]]

\* mutant: the gate opens after half the interval
DirectionThrottled_HalfInterval(direction, current_time) ==
    2 * (current_time - last_direction_alert) < DIRECTION_ALERT_INTERVAL

\* (current_time - self.last_direction_alert) < DIRECTION_ALERT_INTERVAL
DirectionThrottled(direction, current_time) ==
    current_time - last_direction_alert < DIRECTION_ALERT_INTERVAL

\* the keys of last_alerts are the strings f"{class_name}_{distance_level}" and
\* 'general_announce', written here as the pair of words around the underscore
LastAlertKey(detection) == <<detection.class_name, detection.distance_level>>
GeneralAnnounceKey == <<"general", "announce">>

\* (current_time - last_alerts.get('general_announce', 0)) < GENERAL_ANNOUNCE_INTERVAL
GeneralThrottled(current_time) ==
    current_time - LastAlert(GeneralAnnounceKey) < GENERAL_ANNOUNCE_INTERVAL

\* time_since_last < ALERT_INTERVAL / max(urgency, 1), for a key alerted before
ObjectThrottled(detection, current_time) ==
    /\ LastAlertKey(detection) \in DOMAIN last_alerts
    /\ (current_time - last_alerts[LastAlertKey(detection)]) * Max(detection.urgency, 1)
          < ALERT_INTERVAL

\* the urgency alert_close_object puts on the message: from the distance in
\* decimetres when there is one, else from the distance level
ObjectPriority(detection) ==
    IF detection.distance_meters # 0
    THEN IF detection.distance_meters < 20 THEN 3
         ELSE IF detection.distance_meters < 40 THEN 2
         ELSE 1
    ELSE IF detection.distance_level = "very_close" THEN 3
         ELSE IF detection.distance_level = "close" THEN 2
         ELSE 1

\* __init__ followed by initialize_tts and start_worker_thread: the engine is
\* ready and the first worker thread is at the top of its loop
VoiceInit ==
    /\ wall_clock = StartTime
    /\ engine = TRUE
    /\ is_enabled = TRUE
    /\ is_speaking = FALSE
    /\ stop_thread = FALSE
    /\ language = "en"
    /\ alert_queue = <<>>
    /\ last_alerts = <<>>
    /\ last_direction_alert = 0
    /\ worker_thread = 1
    /\ workers = [w \in WorkerIds |-> IF w = 1 THEN [pc |-> "loop"] ELSE NotStarted]
    /\ producers = [p \in Producers |-> Idle]
    /\ cleaner = "idle"
    /\ put_count = 0
    /\ accepted = <<>>
    /\ dequeued = <<>>
    /\ spoken = <<>>
    /\ completed = {}
    /\ interrupted = {}
    /\ drained = {}


-----------------------------------------------------------------------------
(* Per-track alert throttles: the scheduler of the demo loops
   (tests/test_windows.py run_demo, tests/test_continuous_alerts.py) and
   TrackedObject.should_distance_alert.  Time is in tenths of a second,
   distances in decimetres. *)

DemoTracks == {1, 2}
DemoDistanceMenu == {20, 45, 80}
DemoSleepMenu == {29, 31}

\* self.distances of a tracked object: empty, or readings with a whole average
DistancesMenu == {<<>>, <<20>>, <<45>>, <<80>>, <<20, 70>>}

\* sum(self.distances) / len(self.distances)
AvgDistance(distances) == SeqSum(distances) \div Len(distances)

\* alert_interval of the demo loops: 3.0 / 6.0 / 10.0 seconds
DemoAlertInterval(distance) ==
    IF distance < 30 THEN 30
    ELSE IF distance < 60 THEN 60
    ELSE 100

\* last_track_alerts.get(alert_key, 0)
LastTrackAlert(track_id) ==
    IF track_id \in DOMAIN last_track_alerts THEN last_track_alerts[track_id] ELSE 0

\* distance_alert_interval, the default argument of should_distance_alert (5.0 s)
DISTANCE_ALERT_INTERVAL == 50

\* interval of should_distance_alert: half, once or twice distance_alert_interval
DistanceAlertInterval(avg_distance) ==
    IF avg_distance < 30 THEN DISTANCE_ALERT_INTERVAL \div 2
    ELSE IF avg_distance < 60 THEN DISTANCE_ALERT_INTERVAL
    ELSE DISTANCE_ALERT_INTERVAL * 2

\* the demo has sent no alert yet (last_track_alerts does not exist); every
\* TrackedObject starts with last_distance_alert = 0
ThrottleInit ==
    /\ demo_clock = StartTime * 10
    /\ last_track_alerts = <<>>
    /\ demo_call = None
    /\ last_distance_alerts = [t \in DemoTracks |-> 0]
    /\ distance_call = None
    /\ alert_call = None

-----------------------------------------------------------------------------
Init == TrackerInit /\ NavInit /\ DistInit /\ IouInit /\ VoiceInit /\ ThrottleInit

-----------------------------------------------------------------------------
(* Frames offered to the navigation engine: a 30 x 10 frame, whose zones are
   x in [0, 9], [9, 20], [20, 30], and a 40 x 12 frame, whose zones are
   x in [0, 13], [13, 26], [26, 40].  The comments below place the objects
   in the 30 x 10 frame. *)

WithUrgency(detection, urgency) ==
    [f \in DOMAIN detection \cup {"urgency"} |->
        IF f = "urgency" THEN urgency ELSE detection[f]]

NavObjects ==
    {Detection(0, 80, 2, 2, 4, 4),                   \* left, small, not enriched
     WithUrgency(Detection(0, 80, 2, 2, 6, 6), 1),   \* left, urgency 1
     WithUrgency(Detection(0, 80, 1, 1, 5, 5), 3),   \* left, urgency 3
     Detection(0, 80, 13, 2, 15, 4),                 \* center, small, not enriched
     WithUrgency(Detection(0, 80, 13, 2, 15, 4), 2), \* center, urgency 2
     WithUrgency(Detection(0, 80, 13, 2, 17, 6), 3), \* center, urgency 3
     Detection(0, 80, 24, 2, 26, 4),                 \* right, small, not enriched
     WithUrgency(Detection(0, 80, 22, 2, 26, 6), 1), \* right, urgency 1
     Detection(0, 80, 21, 0, 29, 8),                 \* right, large, not enriched
     WithUrgency(Detection(0, 80, 23, 1, 27, 5), 3), \* right, urgency 3
     WithUrgency(Detection(0, 80, 24, 2, 26, 4), 2), \* right, small, urgency 2
     WithUrgency(Detection(0, 80, 2, 2, 7, 7), 2),   \* left, density 25/90, urgency 2
     Detection(0, 80, 8, 2, 10, 4)}                  \* center point on x = 9

\* the detector reports one more object of the current frame
DetectObject ==
    /\ nav_analysis = None
    /\ Len(nav_input.detections) < MaxNavObjects
    /\ \E detection \in NavObjects :
          nav_input' = [nav_input EXCEPT !.detections = Append(@, detection)]
    /\ UNCHANGED <<nav_analysis, tracker_vars, dist_vars, iou_vars, voice_vars, throttle_vars>>

\* NavigationGuide.analyze_regions on the detections of the current frame
AnalyzeFrame ==
    /\ nav_analysis = None
    /\ nav_analysis' = AnalyzeRegions(nav_input.detections, nav_input.frame_shape)
    /\ UNCHANGED <<nav_input, tracker_vars, dist_vars, iou_vars, voice_vars, throttle_vars>>

\* the main loop moves on to the next frame; the analysis is per frame
NextFrame ==
    /\ nav_analysis # None
    /\ \E frame_shape \in NavFrameShapes :
          nav_input' = [detections |-> <<>>, frame_shape |-> frame_shape]
    /\ nav_analysis' = None
    /\ UNCHANGED <<tracker_vars, dist_vars, iou_vars, voice_vars, throttle_vars>>

NavNext == DetectObject \/ AnalyzeFrame \/ NextFrame

NavSpec == Init /\ [][NavNext]_vars

-----------------------------------------------------------------------------
(* Frames offered to the tracker *)

PersonA == Detection(0, 80, 100, 100, 200, 225)    \* a person, 6.0 m
PersonB == Detection(0, 60, 110, 100, 210, 225)    \* the same person, moved 10 px
PersonFar == Detection(0, 70, 400, 100, 500, 225)  \* another person, 300 px away
ChairA == Detection(56, 90, 100, 100, 200, 225)    \* a chair in PersonA's box

FrameMenu ==
    {<<>>, <<PersonA>>, <<PersonB>>, <<ChairA>>, <<PersonA, PersonB>>,
     <<ChairA, PersonA>>, <<PersonFar, PersonB>>}
DtMenu == {0, 6}

LongFrameMenu == {<<>>, <<PersonA>>}
LongDtMenu == {0, 5, 6}

UpdateFrame ==
    /\ frame_count < MaxFrames
    /\ \E raw \in FrameMenu, dt \in DtMenu :
          /\ now + dt <= StartTime + MaxElapsed
          /\ Update(raw, dt)
    /\ frame_count' = frame_count + 1
    /\ UNCHANGED <<nav_vars, dist_vars, iou_vars, voice_vars, throttle_vars>>

TrackerNext == UpdateFrame

TrackerSpec == Init /\ [][TrackerNext]_vars

\* one object in view, any number of frames
UpdateLong ==
    /\ \E raw \in LongFrameMenu, dt \in LongDtMenu :
          /\ now + dt <= StartTime + MaxElapsed
          /\ Update(raw, dt)
    /\ next_track_id' <= MaxTrackId + 1
    /\ \A id \in DOMAIN tracked_objects' :
          tracked_objects'[id].consecutive_detections <= MaxHits
    /\ frame_count' = frame_count
    /\ UNCHANGED <<nav_vars, dist_vars, iou_vars, voice_vars, throttle_vars>>

TrackerLongNext == UpdateLong

TrackerLongSpec == Init /\ [][TrackerLongNext]_vars

-----------------------------------------------------------------------------
(* Calls offered to the distance checker: class names with a table of their
   own and one without, areas on both sides of every rung, a 640 x 480 frame,
   a 10 x 10 frame, and the malformed frame areas 0 and -100 *)

ClassNameMenu == {"person", "bus", "chair"}
AreaMenu == {0, 3, 4, 8, 15, 25, 35, 10000, 12288}
FrameAreaMenu == {640 * 480, 100, 0, 0 - 100}

\* one call of DistanceChecker.calculate_distance_info
CalculateDistanceInfoCall ==
    /\ \E class_name \in ClassNameMenu, area \in AreaMenu, frame_area \in FrameAreaMenu :
          dc_last' = [class_name |-> class_name, area |-> area,
                      frame_area |-> frame_area,
                      result |-> CalculateDistanceInfo(
                                    [class_name |-> class_name, area |-> area],
                                    frame_area)]
    /\ dc_prev' = dc_last
    /\ UNCHANGED <<tracker_vars, nav_vars, iou_vars, voice_vars, throttle_vars>>

DistanceNext == CalculateDistanceInfoCall

DistanceSpec == Init /\ [][DistanceNext]_vars

-----------------------------------------------------------------------------
(* Boxes offered to calculate_iou: every (x1, y1, x2, y2) with coordinates in
   0..MaxCoord, the degenerate boxes (x1 = x2 or y1 = y2) and the inverted
   ones (x1 > x2 or y1 > y2) included *)

BoxMenu == (0..MaxCoord) \X (0..MaxCoord) \X (0..MaxCoord) \X (0..MaxCoord)

\* calculate_iou(a, b) and calculate_iou(b, a) on one pair of boxes
CalculateIouCalls ==
    /\ iou_call = None
    /\ \E a \in BoxMenu, b \in BoxMenu :
          iou_call' = [a |-> a, b |-> b,
                       iou_ab |-> CalculateIou(a, b),
                       iou_ba |-> CalculateIou(b, a)]
    /\ UNCHANGED <<tracker_vars, nav_vars, dist_vars, voice_vars, throttle_vars>>

\* the two values are dropped before the next pair of boxes is compared
NextBoxPair ==
    /\ iou_call # None
    /\ iou_call' = None
    /\ UNCHANGED <<tracker_vars, nav_vars, dist_vars, voice_vars, throttle_vars>>

IouNext == CalculateIouCalls \/ NextBoxPair

IouSpec == Init /\ [][IouNext]_vars

-----------------------------------------------------------------------------
(* Operations of the voice alert system.  A producer operation is a sequence
   of steps of the calling thread; the worker loop, cleanup and the key
   handlers of the main thread are separate threads of control. *)

\* what every step of the voice alert system leaves alone
OtherThanVoice == <<tracker_vars, nav_vars, dist_vars, iou_vars, throttle_vars>>

\* the puts explored are capped: a call that may put starts only while the
\* calls in progress leave room under the cap
CallsInProgress == Cardinality({p \in Producers : producers[p] # Idle})
MayStartCall == put_count + CallsInProgress < MaxMessages

DirectionMenu == {"left", "right", "stop"}

\* detections handed to alert_close_object: not tracked (close, very close),
\* tracked and marked for an alert, tracked and not marked; track_id and
\* distance_meters are only tested for truth, and 0 stands for None as well
CloseObjectMenu ==
    {[class_name |-> "person", distance_level |-> "close", urgency |-> 2,
      distance_meters |-> 0, track_id |-> 0, should_alert |-> FALSE,
      should_distance_alert |-> FALSE],
     [class_name |-> "person", distance_level |-> "very_close", urgency |-> 3,
      distance_meters |-> 0, track_id |-> 0, should_alert |-> FALSE,
      should_distance_alert |-> FALSE],
     [class_name |-> "person", distance_level |-> "close", urgency |-> 2,
      distance_meters |-> 15, track_id |-> 1, should_alert |-> TRUE,
      should_distance_alert |-> TRUE],
     [class_name |-> "person", distance_level |-> "close", urgency |-> 2,
      distance_meters |-> 15, track_id |-> 1, should_alert |-> FALSE,
      should_distance_alert |-> FALSE]}

\* give_direction up to the throttle test: returns when the sound is off or
\* the last direction alert is too recent
GiveDirectionCheckFrom(p, menu) ==
    /\ producers[p] = Idle
    /\ MayStartCall
    /\ \E direction \in menu :
          producers' = [producers EXCEPT ![p] =
              IF ~is_enabled \/ DirectionThrottled(direction, wall_clock) THEN Idle
              ELSE [pc |-> "gd_put", direction |-> direction,
                    current_time |-> wall_clock]]
    /\ UNCHANGED <<wall_clock, engine, is_enabled, is_speaking, stop_thread, language,
                   alert_queue, last_alerts, last_direction_alert, worker_thread,
                   workers, cleaner, put_count, accepted, dequeued, spoken,
                   completed, interrupted, drained, OtherThanVoice>>

GiveDirectionCheck(p) == GiveDirectionCheckFrom(p, DirectionMenu)

\* give_direction: the put of the direction message
GiveDirectionPut(p) ==
    /\ producers[p].pc = "gd_put"
    /\ Put(AlertMessage(producers[p].direction, "direction_alert", 3, 0))
    /\ producers' = [producers EXCEPT ![p] =
                        [pc |-> "gd_set", current_time |-> producers[p].current_time]]
    /\ UNCHANGED <<wall_clock, engine, is_enabled, is_speaking, stop_thread, language,
                   last_alerts, last_direction_alert, worker_thread, workers, cleaner,
                   dequeued, spoken, completed, interrupted, drained, OtherThanVoice>>

\* give_direction: self.last_direction_alert = current_time
GiveDirectionSet(p) ==
    /\ producers[p].pc = "gd_set"
    /\ last_direction_alert' = producers[p].current_time
    /\ producers' = [producers EXCEPT ![p] = Idle]
    /\ UNCHANGED <<wall_clock, engine, is_enabled, is_speaking, stop_thread, language,
                   alert_queue, last_alerts, worker_thread, workers, cleaner,
                   put_count, accepted, dequeued, spoken, completed, interrupted,
                   drained, OtherThanVoice>>

\* announce_objects (with a non-empty detection list) up to the throttle test
AnnounceObjectsCheck(p) ==
    /\ producers[p] = Idle
    /\ MayStartCall
    /\ producers' = [producers EXCEPT ![p] =
          IF ~is_enabled \/ GeneralThrottled(wall_clock) THEN Idle
          ELSE [pc |-> "ao_put", current_time |-> wall_clock]]
    /\ UNCHANGED <<wall_clock, engine, is_enabled, is_speaking, stop_thread, language,
                   alert_queue, last_alerts, last_direction_alert, worker_thread,
                   workers, cleaner, put_count, accepted, dequeued, spoken,
                   completed, interrupted, drained, OtherThanVoice>>

\* announce_objects: the put of the summary message
AnnounceObjectsPut(p) ==
    /\ producers[p].pc = "ao_put"
    /\ Put(AlertMessage("objects", "general_announce", 1, 0))
    /\ producers' = [producers EXCEPT ![p] =
                        [pc |-> "ao_set", current_time |-> producers[p].current_time]]
    /\ UNCHANGED <<wall_clock, engine, is_enabled, is_speaking, stop_thread, language,
                   last_alerts, last_direction_alert, worker_thread, workers, cleaner,
                   dequeued, spoken, completed, interrupted, drained, OtherThanVoice>>

\* announce_objects: self.last_alerts['general_announce'] = current_time
AnnounceObjectsSet(p) ==
    /\ producers[p].pc = "ao_set"
    /\ last_alerts' = SetLastAlert(GeneralAnnounceKey, producers[p].current_time)
    /\ producers' = [producers EXCEPT ![p] = Idle]
    /\ UNCHANGED <<wall_clock, engine, is_enabled, is_speaking, stop_thread, language,
                   alert_queue, last_direction_alert, worker_thread, workers, cleaner,
                   put_count, accepted, dequeued, spoken, completed, interrupted,
                   drained, OtherThanVoice>>

\* alert_close_object up to its gates: returns when the sound is off, for a
\* tracked object that is not marked for an alert, and for an untracked one
\* whose key was alerted too recently
AlertCloseObjectCheckFrom(p, menu) ==
    /\ producers[p] = Idle
    /\ MayStartCall
    /\ \E detection \in menu :
          producers' = [producers EXCEPT ![p] =
              IF ~is_enabled THEN Idle
              ELSE IF detection.track_id # 0 /\ ~detection.should_alert
                      /\ ~detection.should_distance_alert THEN Idle
              ELSE IF detection.track_id = 0 /\ ObjectThrottled(detection, wall_clock)
                   THEN Idle
              ELSE [pc |-> "aco_set", detection |-> detection,
                    current_time |-> wall_clock]]
    /\ UNCHANGED <<wall_clock, engine, is_enabled, is_speaking, stop_thread, language,
                   alert_queue, last_alerts, last_direction_alert, worker_thread,
                   workers, cleaner, put_count, accepted, dequeued, spoken,
                   completed, interrupted, drained, OtherThanVoice>>

AlertCloseObjectCheck(p) == AlertCloseObjectCheckFrom(p, CloseObjectMenu)

\* alert_close_object: self.last_alerts[last_alert_key] = current_time, for an
\* untracked object only
AlertCloseObjectSet(p) ==
    /\ producers[p].pc = "aco_set"
    /\ last_alerts' = IF producers[p].detection.track_id = 0
                      THEN SetLastAlert(LastAlertKey(producers[p].detection),
                                        producers[p].current_time)
                      ELSE last_alerts
    /\ producers' = [producers EXCEPT ![p] =
                        [pc |-> "aco_put", detection |-> producers[p].detection]]
    /\ UNCHANGED <<wall_clock, engine, is_enabled, is_speaking, stop_thread, language,
                   alert_queue, last_direction_alert, worker_thread, workers, cleaner,
                   put_count, accepted, dequeued, spoken, completed, interrupted,
                   drained, OtherThanVoice>>

\* alert_close_object: the put of the object message
AlertCloseObjectPut(p) ==
    /\ producers[p].pc = "aco_put"
    /\ Put(AlertMessage(producers[p].detection.class_name, "object_alert",
                        ObjectPriority(producers[p].detection),
                        producers[p].detection.track_id))
    /\ producers' = [producers EXCEPT ![p] = Idle]
    /\ UNCHANGED <<wall_clock, engine, is_enabled, is_speaking, stop_thread, language,
                   last_alerts, last_direction_alert, worker_thread, workers, cleaner,
                   dequeued, spoken, completed, interrupted, drained, OtherThanVoice>>

\* emergency_alert: one put unless the sound is off
EmergencyAlert(p) ==
    /\ producers[p] = Idle
    /\ put_count < MaxQueued
    /\ is_enabled
    /\ Put(AlertMessage("emergency", "emergency", 3, 0))
    /\ UNCHANGED <<wall_clock, engine, is_enabled, is_speaking, stop_thread, language,
                   last_alerts, last_direction_alert, worker_thread, workers,
                   producers, cleaner, dequeued, spoken, completed, interrupted,
                   drained, OtherThanVoice>>

\* system_message: one put, whatever the sound setting
SystemMessage(p) ==
    /\ producers[p] = Idle
    /\ put_count < MaxQueued
    /\ Put(AlertMessage("message", "system", 2, 0))
    /\ UNCHANGED <<wall_clock, engine, is_enabled, is_speaking, stop_thread, language,
                   last_alerts, last_direction_alert, worker_thread, workers,
                   producers, cleaner, dequeued, spoken, completed, interrupted,
                   drained, OtherThanVoice>>

\* toggle_sound, from the key handler of the main thread: flips is_enabled and
\* puts the sound_on / sound_off system message
ToggleSound ==
    /\ MayStartCall
    /\ is_enabled' = ~is_enabled
    /\ Put(AlertMessage(IF is_enabled THEN "sound_off" ELSE "sound_on", "system", 2, 0))
    /\ UNCHANGED <<wall_clock, engine, is_speaking, stop_thread, language,
                   last_alerts, last_direction_alert, worker_thread, workers,
                   producers, cleaner, dequeued, spoken, completed, interrupted,
                   drained, OtherThanVoice>>

\* switch_language without argument: toggles the language, initializes the
\* engine again and puts the announcement
SwitchLanguage ==
    /\ MayStartCall
    /\ language' = IF language = "en" THEN "tr" ELSE "en"
    /\ engine' = TRUE
    /\ Put(AlertMessage("language", "language_change", 2, 0))
    /\ UNCHANGED <<wall_clock, is_enabled, is_speaking, stop_thread,
                   last_alerts, last_direction_alert, worker_thread, workers,
                   producers, cleaner, dequeued, spoken, completed, interrupted,
                   drained, OtherThanVoice>>

\* start_worker_thread: returns when the worker thread is alive, else clears
\* the stop flag and starts a new thread on _worker_loop
StartWorkerThread ==
    /\ ~WorkerIsAlive
    /\ \E w \in WorkerIds :
          /\ workers[w] = NotStarted
          /\ \A v \in WorkerIds : workers[v] = NotStarted => w <= v
          /\ worker_thread' = w
          /\ workers' = [workers EXCEPT ![w] = [pc |-> "loop"]]
    /\ stop_thread' = FALSE
    /\ UNCHANGED <<wall_clock, engine, is_enabled, is_speaking, language, alert_queue,
                   last_alerts, last_direction_alert, producers, cleaner, put_count,
                   accepted, dequeued, spoken, completed, interrupted, drained,
                   OtherThanVoice>>

\* _worker_loop: while not self.stop_thread
WorkerLoopTest(w) ==
    /\ workers[w].pc = "loop"
    /\ workers' = [workers EXCEPT ![w] =
                      IF stop_thread THEN [pc |-> "exited"] ELSE [pc |-> "get"]]
    /\ UNCHANGED <<wall_clock, engine, is_enabled, is_speaking, stop_thread, language,
                   alert_queue, last_alerts, last_direction_alert, worker_thread,
                   producers, cleaner, put_count, accepted, dequeued, spoken,
                   completed, interrupted, drained, OtherThanVoice>>

\* _worker_loop: alert_queue.get(timeout=1.0) returns a message; after_stop
\* and muted (history) tell whether stop_thread was set and whether the sound
\* was off by then
WorkerGet(w) ==
    /\ workers[w].pc = "get"
    /\ alert_queue # <<>>
    /\ \E got \in {QueueGet(alert_queue)} :
          /\ alert_queue' = got.rest
          /\ workers' = [workers EXCEPT ![w] =
                            [pc |-> "process", message |-> got.item,
                             after_stop |-> stop_thread, muted |-> ~is_enabled]]
          /\ dequeued' = Append(dequeued, got.item.seq)
    /\ UNCHANGED <<wall_clock, engine, is_enabled, is_speaking, stop_thread, language,
                   last_alerts, last_direction_alert, worker_thread, producers,
                   cleaner, put_count, accepted, spoken, completed, interrupted,
                   drained, OtherThanVoice>>

\* _worker_loop: the get times out on the empty queue (except Empty: continue)
WorkerGetTimeout(w) ==
    /\ workers[w].pc = "get"
    /\ alert_queue = <<>>
    /\ workers' = [workers EXCEPT ![w] = [pc |-> "loop"]]
    /\ UNCHANGED <<wall_clock, engine, is_enabled, is_speaking, stop_thread, language,
                   alert_queue, last_alerts, last_direction_alert, worker_thread,
                   producers, cleaner, put_count, accepted, dequeued, spoken,
                   completed, interrupted, drained, OtherThanVoice>>

\* _worker_loop with the message in hand, and _speak_text up to engine.say:
\* the message is dropped when the sound is off; a message of priority below
\* 3 returns when is_speaking is set (and the finally clause clears the
\* flag); a message of priority 3 stops the utterance in progress
WorkerProcess(w) ==
    /\ workers[w].pc = "process"
    /\ LET message == workers[w].message
           speak == is_enabled /\ engine /\ ~(is_speaking /\ message.priority < 3)
       IN /\ workers' = [workers EXCEPT ![w] =
                 IF speak THEN [pc |-> "speaking", message |-> message]
                 ELSE [pc |-> "loop"]]
          /\ is_speaking' = IF speak THEN TRUE
                            ELSE IF is_enabled /\ engine THEN FALSE
                            ELSE is_speaking
          /\ interrupted' = IF speak /\ is_speaking /\ message.priority >= 3
                               /\ CurrentUtterance # 0
                            THEN interrupted \cup {CurrentUtterance}
                            ELSE interrupted
          /\ spoken' = IF speak
                       THEN Append(spoken, [seq |-> message.seq,
                                            priority |-> message.priority,
                                            after_stop |-> workers[w].after_stop
                                                           /\ stop_thread,
                                            muted |-> workers[w].muted])
                       ELSE spoken
    /\ UNCHANGED <<wall_clock, engine, is_enabled, stop_thread, language, alert_queue,
                   last_alerts, last_direction_alert, worker_thread, producers,
                   cleaner, put_count, accepted, dequeued, completed, drained,
                   OtherThanVoice>>

\* _speak_text: runAndWait returns, finally is_speaking = False, task_done
WorkerFinish(w) ==
    /\ workers[w].pc = "speaking"
    /\ is_speaking' = FALSE
    /\ completed' = IF workers[w].message.seq \in interrupted THEN completed
                    ELSE completed \cup {workers[w].message.seq}
    /\ workers' = [workers EXCEPT ![w] = [pc |-> "loop"]]
    /\ UNCHANGED <<wall_clock, engine, is_enabled, stop_thread, language, alert_queue,
                   last_alerts, last_direction_alert, worker_thread, producers,
                   cleaner, put_count, accepted, dequeued, spoken, interrupted,
                   drained, OtherThanVoice>>

\* cleanup: self.stop_thread = True
CleanupSignal ==
    /\ cleaner = "idle"
    /\ stop_thread' = TRUE
    /\ cleaner' = "join"
    /\ UNCHANGED <<wall_clock, engine, is_enabled, is_speaking, language, alert_queue,
                   last_alerts, last_direction_alert, worker_thread, workers,
                   producers, put_count, accepted, dequeued, spoken, completed,
                   interrupted, drained, OtherThanVoice>>

\* cleanup: worker_thread.join(timeout=2.0) returns, because the worker has
\* exited or because the two seconds have passed; an idle worker leaves its
\* loop within the second its get waits, so that only an utterance outlasts
\* the join
CleanupJoin ==
    /\ cleaner = "join"
    /\ ~WorkerIsAlive \/ Speaking # {}
    /\ cleaner' = "clear"
    /\ UNCHANGED <<wall_clock, engine, is_enabled, is_speaking, stop_thread, language,
                   alert_queue, last_alerts, last_direction_alert, worker_thread,
                   workers, producers, put_count, accepted, dequeued, spoken,
                   completed, interrupted, drained, OtherThanVoice>>

\* clear_queue: one round of the loop, get_nowait and task_done, or its exit
\* on the empty queue
CleanupClear ==
    /\ cleaner = "clear"
    /\ IF alert_queue # <<>>
       THEN /\ alert_queue' = Tail(alert_queue)
            /\ drained' = drained \cup {Head(alert_queue).seq}
            /\ UNCHANGED cleaner
       ELSE /\ cleaner' = "stop_engine"
            /\ UNCHANGED <<alert_queue, drained>>
    /\ UNCHANGED <<wall_clock, engine, is_enabled, is_speaking, stop_thread, language,
                   last_alerts, last_direction_alert, worker_thread, workers,
                   producers, put_count, accepted, dequeued, spoken, completed,
                   interrupted, OtherThanVoice>>

\* cleanup: self.engine.stop(), which ends an utterance still in progress
CleanupStopEngine ==
    /\ cleaner = "stop_engine"
    /\ cleaner' = "done"
    /\ interrupted' = IF engine /\ CurrentUtterance # 0
                      THEN interrupted \cup {CurrentUtterance}
                      ELSE interrupted
    /\ UNCHANGED <<wall_clock, engine, is_enabled, is_speaking, stop_thread, language,
                   alert_queue, last_alerts, last_direction_alert, worker_thread,
                   workers, producers, put_count, accepted, dequeued, spoken,
                   completed, drained, OtherThanVoice>>

\* the wall clock (time.time()) between two calls of the producers
TickMenu == {9, 10}

Tick ==
    /\ \A p \in Producers : producers[p] = Idle
    /\ \E d \in TickMenu :
          /\ wall_clock + d <= StartTime + MaxVoiceElapsed
          /\ wall_clock' = wall_clock + d
    /\ UNCHANGED <<engine, is_enabled, is_speaking, stop_thread, language, alert_queue,
                   last_alerts, last_direction_alert, worker_thread, workers,
                   producers, cleaner, put_count, accepted, dequeued, spoken,
                   completed, interrupted, drained, OtherThanVoice>>

\* producers that put faster than the worker takes: no utterance ends while
\* emergency_alert and system_message are called
QueueNext == \E p \in Producers : EmergencyAlert(p) \/ SystemMessage(p)

QueueSpec == Init /\ [][QueueNext]_vars

ProducerStep(p) ==
    \/ GiveDirectionCheck(p) \/ GiveDirectionPut(p) \/ GiveDirectionSet(p)
    \/ AnnounceObjectsCheck(p) \/ AnnounceObjectsPut(p) \/ AnnounceObjectsSet(p)
    \/ AlertCloseObjectCheck(p) \/ AlertCloseObjectSet(p) \/ AlertCloseObjectPut(p)

WorkerStep(w) ==
    \/ WorkerLoopTest(w) \/ WorkerGet(w) \/ WorkerGetTimeout(w)
    \/ WorkerProcess(w) \/ WorkerFinish(w)

CleanupStep == CleanupSignal \/ CleanupJoin \/ CleanupClear \/ CleanupStopEngine

\* the alert threads of two frames, the worker, the key handlers and cleanup,
\* interleaved step by step
VoiceNext ==
    \/ \E p \in Producers : ProducerStep(p)
    \/ \E w \in WorkerIds : WorkerStep(w)
    \/ StartWorkerThread
    \/ ToggleSound
    \/ SwitchLanguage
    \/ CleanupStep

VoiceSpec == Init /\ [][VoiceNext]_vars

\* one alert thread at a time: a call returns before the next one starts
VoiceSeqNext ==
    \/ ProducerStep(1)
    \/ \E w \in WorkerIds : WorkerStep(w)
    \/ Tick

VoiceSeqSpec == Init /\ [][VoiceSeqNext]_vars

-----------------------------------------------------------------------------
(* Steps of the per-track throttles *)

\* what every step of the throttles leaves alone
OtherThanThrottle == <<tracker_vars, nav_vars, dist_vars, iou_vars, voice_vars>>

\* one detection of the demo loop: a stable detection whose track was last
\* alerted at least alert_interval ago stamps the track and sends the alert
RunDemoDetection ==
    /\ demo_call = None
    /\ \E track_id \in DemoTracks, distance \in DemoDistanceMenu, is_stable \in BOOLEAN :
          LET alerted == is_stable
                         /\ demo_clock - LastTrackAlert(track_id)
                               >= DemoAlertInterval(distance)
          IN /\ last_track_alerts' =
                    IF alerted
                    THEN [k \in DOMAIN last_track_alerts \cup {track_id} |->
                             IF k = track_id THEN demo_clock ELSE last_track_alerts[k]]
                    ELSE last_track_alerts
             /\ demo_call' = [track_id |-> track_id, distance |-> distance,
                              is_stable |-> is_stable, time |-> demo_clock,
                              before |-> last_track_alerts, alerted |-> alerted]
    /\ UNCHANGED <<demo_clock, last_distance_alerts, distance_call, alert_call,
                   OtherThanThrottle>>

\* tracked_obj.should_distance_alert() on a track with the given distances
ShouldDistanceAlertCall ==
    /\ distance_call = None
    /\ \E track_id \in DemoTracks, distances \in DistancesMenu, is_stable \in BOOLEAN :
          LET result == /\ is_stable
                        /\ distances # <<>>
                        /\ demo_clock - last_distance_alerts[track_id]
                              >= DistanceAlertInterval(AvgDistance(distances))
          IN /\ last_distance_alerts' =
                    IF result
                    THEN [last_distance_alerts EXCEPT ![track_id] = demo_clock]
                    ELSE last_distance_alerts
             /\ distance_call' = [track_id |-> track_id, distances |-> distances,
                                  is_stable |-> is_stable, time |-> demo_clock,
                                  before |-> last_distance_alerts, result |-> result]
    /\ UNCHANGED <<demo_clock, last_track_alerts, demo_call, alert_call,
                   OtherThanThrottle>>

\* the loop sleeps and reads the clock again
DemoSleep ==
    /\ \E d \in DemoSleepMenu :
          /\ demo_clock + d <= StartTime * 10 + MaxDemoElapsed
          /\ demo_clock' = demo_clock + d
    /\ demo_call' = None
    /\ distance_call' = None
    /\ UNCHANGED <<last_track_alerts, last_distance_alerts, alert_call,
                   OtherThanThrottle>>

\* the demo loop on its own
DemoNext == RunDemoDetection \/ DemoSleep

DemoSpec == Init /\ [][DemoNext]_vars

\* a loop that asks the tracked objects themselves
DistanceAlertNext == ShouldDistanceAlertCall \/ DemoSleep

DistanceAlertSpec == Init /\ [][DistanceAlertNext]_vars

-----------------------------------------------------------------------------
(* Frames with malformed detections offered to the tracker: a box of width 0,
   a box with its corners swapped, and a detection without the bbox key *)

DegenerateChair == Detection(56, 90, 200, 100, 200, 225)
InvertedChair == Detection(56, 90, 200, 225, 100, 100)
NoBBoxChair == [f \in DOMAIN ChairA \ {"bbox"} |-> ChairA[f]]

IngestFrameMenu ==
    {<<ChairA>>, <<DegenerateChair>>, <<InvertedChair>>, <<NoBBoxChair>>,
     <<PersonA, NoBBoxChair>>}

\* the exception a missing dict key raises
KeyError == [raised |-> "KeyError"]

HasBBox(detection) == "bbox" \in DOMAIN detection

\* unmatched_detections up to the first one whose TrackedObject cannot be built
RECURSIVE BeforeKeyError(_, _)
BeforeKeyError(unmatched_detections, dets) ==
    IF unmatched_detections = <<>> \/ ~HasBBox(dets[Head(unmatched_detections)])
    THEN <<>>
    ELSE <<Head(unmatched_detections)>>
            \o BeforeKeyError(Tail(unmatched_detections), dets)

\* ObjectTracker.update(raw) on a frame with a detection that has no bbox.
\* match_detections reads detection['bbox'] for every track of the detection's
\* class and raises there, before the track table is touched; with no such
\* track the detection is unmatched, and TrackedObject.__init__ raises in the
\* loop that creates the tracks, after the matched tracks were updated and the
\* tracks of the earlier unmatched detections were created, and before
\* miss_frame and the removal of expired tracks
UpdateKeyError(raw, dt) ==
    \E time \in {now + dt} :
    LET dets == [i \in 1..Len(raw) |-> WithDistance(raw[i])]
        raises_in_match ==
            \E i \in 1..Len(dets), id \in DOMAIN tracked_objects :
                /\ ~HasBBox(dets[i])
                /\ dets[i].class_id = tracked_objects[id].class_id
    IN /\ now' = time
       /\ detections' = dets
       /\ stable_objects' = KeyError
       /\ pre_track_ids' = DOMAIN tracked_objects
       /\ IF raises_in_match
          THEN UNCHANGED <<tracked_objects, next_track_id, matching_result,
                           assigned_ids, run_length, best_run>>
          ELSE \E result \in {MatchDetections(tracked_objects, dets, time)} :
               \E grown \in {CreateTracks(
                                [table |-> UpdateMatched(tracked_objects, result.matches,
                                                         dets, time),
                                 next_track_id |-> next_track_id, created |-> <<>>],
                                BeforeKeyError(result.unmatched_detections, dets),
                                dets, time)} :
               LET created == Range(grown.created)
                   matched == MatchedIds(result)
                   run(id) == IF id \in created THEN 1
                              ELSE IF id \in matched THEN run_length[id] + 1
                              ELSE run_length[id]
               IN /\ matching_result' = result
                  /\ tracked_objects' = grown.table
                  /\ next_track_id' = grown.next_track_id
                  /\ assigned_ids' = assigned_ids \o grown.created
                  /\ run_length' = [id \in DOMAIN grown.table |-> run(id)]
                  /\ best_run' = [id \in DOMAIN grown.table |->
                                    IF id \in DOMAIN best_run /\ id \notin created
                                    THEN Max(best_run[id], run(id)) ELSE run(id)]

\* one update call on a frame that may hold malformed detections
UpdateIngest ==
    /\ frame_count < MaxFrames
    /\ \E raw \in IngestFrameMenu, dt \in DtMenu :
          /\ now + dt <= StartTime + MaxElapsed
          /\ IF \A i \in 1..Len(raw) : HasBBox(raw[i])
             THEN Update(raw, dt)
             ELSE UpdateKeyError(raw, dt)
    /\ frame_count' = frame_count + 1
    /\ UNCHANGED <<nav_vars, dist_vars, iou_vars, voice_vars, throttle_vars>>

TrackerIngestNext == UpdateIngest

TrackerIngestSpec == Init /\ [][TrackerIngestNext]_vars

-----------------------------------------------------------------------------
(* Object alerts with any urgency, distance level and distance, handed to
   alert_close_object of the package class and of the class main.py imports
   (src/voice_alert.py) *)

AnyObjectMenu ==
    {[class_name |-> "person", distance_level |-> level, urgency |-> urgency,
      distance_meters |-> distance, track_id |-> 0, should_alert |-> FALSE,
      should_distance_alert |-> FALSE] :
        level \in {"close", "medium"}, urgency \in {0, 2, 5}, distance \in {0, 15, 90}}

\* alert_close_object of the package class, on any detection
AlertAnyObjectCheck(p) == AlertCloseObjectCheckFrom(p, AnyObjectMenu)

\* src/voice_alert.py, alert_close_object up to the throttle test
LegacyAlertCloseObjectCheck(p) ==
    /\ producers[p] = Idle
    /\ MayStartCall
    /\ \E detection \in AnyObjectMenu :
          producers' = [producers EXCEPT ![p] =
              IF ~is_enabled \/ ObjectThrottled(detection, wall_clock) THEN Idle
              ELSE [pc |-> "laco_put", detection |-> detection,
                    current_time |-> wall_clock]]
    /\ UNCHANGED <<wall_clock, engine, is_enabled, is_speaking, stop_thread, language,
                   alert_queue, last_alerts, last_direction_alert, worker_thread,
                   workers, cleaner, put_count, accepted, dequeued, spoken,
                   completed, interrupted, drained, OtherThanVoice>>

\* src/voice_alert.py, alert_close_object: the put, with 'priority': urgency
LegacyAlertCloseObjectPut(p) ==
    /\ producers[p].pc = "laco_put"
    /\ Put(AlertMessage(producers[p].detection.class_name, "object_alert",
                        producers[p].detection.urgency, 0))
    /\ producers' = [producers EXCEPT ![p] =
                        [pc |-> "laco_set", detection |-> producers[p].detection,
                         current_time |-> producers[p].current_time]]
    /\ UNCHANGED <<wall_clock, engine, is_enabled, is_speaking, stop_thread, language,
                   last_alerts, last_direction_alert, worker_thread, workers, cleaner,
                   dequeued, spoken, completed, interrupted, drained, OtherThanVoice>>

\* src/voice_alert.py, alert_close_object: self.last_alerts[key] = current_time
LegacyAlertCloseObjectSet(p) ==
    /\ producers[p].pc = "laco_set"
    /\ last_alerts' = SetLastAlert(LastAlertKey(producers[p].detection),
                                   producers[p].current_time)
    /\ producers' = [producers EXCEPT ![p] = Idle]
    /\ UNCHANGED <<wall_clock, engine, is_enabled, is_speaking, stop_thread, language,
                   alert_queue, last_direction_alert, worker_thread, workers, cleaner,
                   put_count, accepted, dequeued, spoken, completed, interrupted,
                   drained, OtherThanVoice>>

\* the object alerts of both classes, one call at a time, beside the worker
PriorityNext ==
    \/ AlertAnyObjectCheck(1) \/ AlertCloseObjectSet(1) \/ AlertCloseObjectPut(1)
    \/ LegacyAlertCloseObjectCheck(1) \/ LegacyAlertCloseObjectPut(1)
    \/ LegacyAlertCloseObjectSet(1)
    \/ \E w \in WorkerIds : WorkerStep(w)

PrioritySpec == Init /\ [][PriorityNext]_vars

\* the package class alone
PackagePriorityNext ==
    \/ AlertAnyObjectCheck(1) \/ AlertCloseObjectSet(1) \/ AlertCloseObjectPut(1)
    \/ \E w \in WorkerIds : WorkerStep(w)

PackagePrioritySpec == Init /\ [][PackagePriorityNext]_vars

-----------------------------------------------------------------------------
(* Frames that exercise the greedy assignment: persons of one size shifted
   along x (similarity 0.84 at 10 px, 0.59 at 30 px, 0.38 at 50 px, 0.07 at
   90 px), the same person twice, and two chairs whose similarity is exactly
   0.3 (IoU 3/14, centers 50 px apart) *)

P50 == Detection(0, 80, 50, 100, 150, 225)
P100 == Detection(0, 80, 100, 100, 200, 225)
P110 == Detection(0, 80, 110, 100, 210, 225)
P130 == Detection(0, 80, 130, 100, 230, 225)
P140 == Detection(0, 80, 140, 100, 240, 225)
ChairTall == Detection(56, 90, 0, 100, 100, 210)
ChairLow == Detection(56, 90, 50, 125, 150, 185)

GreedyFrameMenu ==
    {<<>>, <<P100, P140>>, <<P110, P50>>, <<P130>>, <<P100, P100>>,
     <<ChairTall>>, <<ChairLow>>}

\* one update call on a frame of the greedy menu, the clock standing still
UpdateGreedy ==
    /\ frame_count < MaxFrames
    /\ \E raw \in GreedyFrameMenu : Update(raw, 0)
    /\ frame_count' = frame_count + 1
    /\ UNCHANGED <<nav_vars, dist_vars, iou_vars, voice_vars, throttle_vars>>

MatchNext == UpdateGreedy

MatchSpec == Init /\ [][MatchNext]_vars

-----------------------------------------------------------------------------
(* One person followed over many frames: the box alternates between two sizes
   around one center, so areas (12500, 50000), confidences (80, 70) and
   estimated distances (6.0 m, 3.0 m) differ from frame to frame; the
   similarity of the two boxes is 0.475 *)

PersonBig == Detection(0, 70, 50, 37, 250, 287)

HistoryFrameMenu == {<<P100>>, <<PersonBig>>}

UpdateHistory ==
    /\ frame_count < MaxHistoryFrames
    /\ \E raw \in HistoryFrameMenu : Update(raw, 0)
    /\ frame_count' = frame_count + 1
    /\ UNCHANGED <<nav_vars, dist_vars, iou_vars, voice_vars, throttle_vars>>

HistoryNext == UpdateHistory

HistorySpec == Init /\ [][HistoryNext]_vars

-----------------------------------------------------------------------------
(* The main pipeline: handle_alerts hands the recommended direction of the
   frame's analysis to give_direction when the center is blocked *)

\* "if navigation_info['center_blocked']: direction = ...; if direction:
\*  self.voice_alert.give_direction(direction)", up to the throttle test
HandleAlertsDirection(p) ==
    /\ nav_analysis # None
    /\ nav_analysis.center_blocked
    /\ nav_analysis.recommended_direction # NoDirection
    /\ GiveDirectionCheckFrom(p, {nav_analysis.recommended_direction})

PipelineNext ==
    \/ DetectObject
    \/ AnalyzeFrame
    \/ NextFrame
    \/ HandleAlertsDirection(1)
    \/ GiveDirectionPut(1)
    \/ GiveDirectionSet(1)

PipelineSpec == Init /\ [][PipelineNext]_vars

-----------------------------------------------------------------------------
(* The dispatcher left to itself: the sound stays on, nobody calls cleanup,
   and the worker thread started by the constructor keeps being scheduled;
   every utterance returns from runAndWait *)

VoiceLiveNext ==
    \/ ProducerStep(1)
    \/ WorkerStep(1)
    \/ SwitchLanguage
    \/ Tick

VoiceLiveSpec == Init /\ [][VoiceLiveNext]_vars /\ WF_vars(WorkerStep(1))

-----------------------------------------------------------------------------
(* Alert gates of a tracked object.  Tracker time is in whole seconds; the
   intervals of should_distance_alert (2.5 s, 5 s, 10 s) are compared in
   tenths of a second *)

\* mutant: a rejected call on a stable track stamps the track all the same
ShouldAlert_StampsRejected(t, alert_interval, current_time) ==
    IF ~t.is_stable THEN [result |-> FALSE, obj |-> t]
    ELSE IF current_time - t.last_alert_time >= alert_interval
    THEN [result |-> TRUE,
          obj |-> [t EXCEPT !.last_alert_time = current_time, !.alert_count = @ + 1]]
    ELSE [result |-> FALSE, obj |-> [t EXCEPT !.last_alert_time = current_time]]

\* TrackedObject.should_alert: the return value and the object after the call
ShouldAlert(t, alert_interval, current_time) ==
    IF ~t.is_stable THEN [result |-> FALSE, obj |-> t]
    ELSE IF current_time - t.last_alert_time >= alert_interval
    THEN [result |-> TRUE,
          obj |-> [t EXCEPT !.last_alert_time = current_time, !.alert_count = @ + 1]]
    ELSE [result |-> FALSE, obj |-> t]

\* TrackedObject.should_distance_alert with its default interval
ShouldDistanceAlert(t, current_time) ==
    IF ~t.is_stable \/ t.distances = <<>> THEN [result |-> FALSE, obj |-> t]
    ELSE IF (current_time - t.last_distance_alert) * 10
               >= DistanceAlertInterval(AvgDistance(t.distances))
    THEN [result |-> TRUE, obj |-> [t EXCEPT !.last_distance_alert = current_time]]
    ELSE [result |-> FALSE, obj |-> t]

\* the loop of get_objects_for_alerts over tracked_objects.values(): the table
\* after the call and the returned list
ObjectsForAlerts(table, time) ==
    LET keys == SortedSeq(DOMAIN table)
        F[k \in 0..Len(keys)] ==
            IF k = 0 THEN [table |-> table, alert_objects |-> <<>>]
            ELSE LET acc == F[k - 1]
                     id == keys[k]
                     alert == ShouldAlert(acc.table[id], ALERT_INTERVAL, time)
                 IN IF ~alert.result THEN acc
                    ELSE LET detection == GetCurrentDetection(alert.obj, time)
                             gate == ShouldDistanceAlert(alert.obj, time)
                         IN [table |-> [acc.table EXCEPT ![id] = gate.obj],
                             alert_objects |->
                                 Append(acc.alert_objects,
                                        [track_id |-> detection.track_id,
                                         alert_count |-> detection.alert_count,
                                         distance_meters |-> detection.distance_meters,
                                         should_alert |-> TRUE,
                                         should_distance_alert |-> gate.result])]
    IN F[Len(keys)]

AlertFrameMenu == {<<P100>>, <<P100, PersonFar>>}
AlertDtMenu == {4, 5}
AlertIntervalMenu == {5, 10}

\* one update call of the camera loop, 4 or 5 seconds after the previous one
UpdateAlertFrame ==
    /\ \E raw \in AlertFrameMenu, dt \in AlertDtMenu :
          /\ now + dt <= StartTime + MaxAlertElapsed
          /\ Update(raw, dt)
    /\ frame_count' = frame_count + 1
    /\ UNCHANGED <<nav_vars, dist_vars, iou_vars, voice_vars, throttle_vars>>

\* tracker.get_objects_for_alerts()
GetObjectsForAlerts ==
    /\ \E r \in {ObjectsForAlerts(tracked_objects, now)} :
          /\ tracked_objects' = r.table
          /\ alert_call' = [op |-> "get_objects_for_alerts", time |-> now,
                            result |-> r.alert_objects]
    /\ UNCHANGED <<now, next_track_id, detections, matching_result, stable_objects,
                   pre_track_ids, assigned_ids, run_length, best_run, frame_count,
                   demo_clock, last_track_alerts, demo_call, last_distance_alerts,
                   distance_call, nav_vars, dist_vars, iou_vars, voice_vars>>

\* tracked_obj.should_alert(alert_interval) on one track of the table
ShouldAlertCall ==
    /\ \E id \in DOMAIN tracked_objects, alert_interval \in AlertIntervalMenu :
       \E r \in {ShouldAlert(tracked_objects[id], alert_interval, now)} :
          /\ tracked_objects' = [tracked_objects EXCEPT ![id] = r.obj]
          /\ alert_call' = [op |-> "should_alert", time |-> now, track_id |-> id,
                            alert_interval |-> alert_interval, result |-> r.result]
    /\ UNCHANGED <<now, next_track_id, detections, matching_result, stable_objects,
                   pre_track_ids, assigned_ids, run_length, best_run, frame_count,
                   demo_clock, last_track_alerts, demo_call, last_distance_alerts,
                   distance_call, nav_vars, dist_vars, iou_vars, voice_vars>>

AlertNext == UpdateAlertFrame \/ GetObjectsForAlerts \/ ShouldAlertCall

AlertSpec == Init /\ [][AlertNext]_vars

-----------------------------------------------------------------------------
(* Properties of the tracker *)

ReturnedIds == {stable_objects[k].track_id : k \in 1..Len(stable_objects)}
UnmatchedTrackIds == Range(matching_result.unmatched_tracks)
UnmatchedDetections == Range(matching_result.unmatched_detections)
MatchedDetections ==
    {matching_result.matches[k][1] : k \in 1..Len(matching_result.matches)}
MatchedTrackIds == MatchedIds(matching_result)

\* C1: a track is stable (flag set, and present in the list update returns)
\* exactly when it has been detected in 3 consecutive frames at some point
\* of its life, its creation frame counting as the first: never before the
\* third frame of such a run, and from that frame on.
C1_StableExactlyOnThirdFrame ==
    /\ \A id \in DOMAIN tracked_objects :
          /\ tracked_objects[id].is_stable <=> best_run[id] >= 3
          /\ id \in ReturnedIds <=> best_run[id] >= 3
    /\ ReturnedIds \subseteq DOMAIN tracked_objects

\* a track interrupted once (so 4 detections did not suffice) that has just
\* completed its first run of 3 consecutive frames and is returned as stable
C1_Witness ==
    \E id \in DOMAIN tracked_objects :
        /\ run_length[id] = 3
        /\ best_run[id] = 3
        /\ Len(tracked_objects[id].positions) >= 5
        /\ tracked_objects[id].is_stable
        /\ id \in ReturnedIds

\* C2: once a track is stable it stays stable for as long as it is in the
\* table; a missed frame sets the consecutive-hit counter to 0 and leaves
\* the stability flag as it was.
C2_StabilitySticky ==
    [][\A id \in DOMAIN tracked_objects \cap DOMAIN tracked_objects' :
          /\ tracked_objects[id].is_stable => tracked_objects'[id].is_stable
          /\ id \in UnmatchedTrackIds' =>
                /\ tracked_objects'[id].consecutive_detections = 0
                /\ tracked_objects'[id].is_stable = tracked_objects[id].is_stable]_vars

\* a stable track that has missed frames, with its hit counter reset
C2_Witness ==
    \E id \in DOMAIN tracked_objects :
        /\ tracked_objects[id].is_stable
        /\ tracked_objects[id].missed_frames >= 2
        /\ tracked_objects[id].consecutive_detections = 0

\* C3: after every update no track in the table has more than 10 consecutive
\* misses or a last-seen age above 5 s; the update recording a track's 11th
\* consecutive miss removes it; a track reaching 9 consecutive misses with a
\* last-seen age below 5 s stays in the table.
C3_TableAfterExpiry ==
    \A id \in DOMAIN tracked_objects :
        /\ tracked_objects[id].missed_frames <= 10
        /\ now - tracked_objects[id].last_seen <= 5

C3_ExpiryStep ==
    \A id \in DOMAIN tracked_objects :
        id \in UnmatchedTrackIds' =>
            /\ tracked_objects[id].missed_frames = 10 =>
                  id \notin DOMAIN tracked_objects'
            /\ (tracked_objects[id].missed_frames = 8
                /\ now' - tracked_objects[id].last_seen < 5) =>
                  /\ id \in DOMAIN tracked_objects'
                  /\ tracked_objects'[id].missed_frames = 9

C3_TrackExpiry == []C3_TableAfterExpiry /\ [][C3_ExpiryStep]_vars

\* no time has passed, so track 1 was removed by its 11th miss; track 2 has
\* reached 9 misses and is still in the table
C3_Witness ==
    /\ now = StartTime
    /\ Len(assigned_ids) = 2
    /\ 1 \notin DOMAIN tracked_objects
    /\ 2 \in DOMAIN tracked_objects
    /\ tracked_objects[2].missed_frames = 9

\* C4: the ids given to new tracks are 1, 2, 3, ... in order of creation
\* (unique, increasing, never reused, also after tracks have expired), and
\* every unmatched detection of an update creates exactly one new track
\* carrying the next id.
C4_IdsSequential ==
    /\ \A k \in 1..Len(assigned_ids) : assigned_ids[k] = k
    /\ next_track_id = Len(assigned_ids) + 1
    /\ DOMAIN tracked_objects \subseteq Range(assigned_ids)
    /\ \A id \in DOMAIN tracked_objects : tracked_objects[id].track_id = id

C4_CreationStep ==
    LET n == Len(matching_result'.unmatched_detections) IN
    /\ Len(assigned_ids') = Len(assigned_ids) + n
    /\ DOMAIN tracked_objects' \ DOMAIN tracked_objects
          = next_track_id..(next_track_id + n - 1)
    /\ \A id \in DOMAIN tracked_objects :
          \A other \in DOMAIN tracked_objects' \ DOMAIN tracked_objects : other > id

C4_UniqueIds == []C4_IdsSequential /\ [][C4_CreationStep]_vars

\* track 1 has expired and a later detection got a fresh id
C4_Witness ==
    /\ Len(assigned_ids) >= 2
    /\ 1 \notin DOMAIN tracked_objects
    /\ \E id \in DOMAIN tracked_objects :
          /\ id >= 2
          /\ tracked_objects[id].first_seen > StartTime

\* C5: the assignment of one match_detections call is one-to-one, and it
\* splits the detections into matched / unmatched and the tracks present at
\* the start of the call into matched / unmatched.
C5_OneToOneMatching ==
    /\ Cardinality(MatchedDetections) = Len(matching_result.matches)
    /\ Cardinality(MatchedTrackIds) = Len(matching_result.matches)
    /\ Cardinality(UnmatchedDetections) = Len(matching_result.unmatched_detections)
    /\ Cardinality(UnmatchedTrackIds) = Len(matching_result.unmatched_tracks)
    /\ MatchedDetections \cap UnmatchedDetections = {}
    /\ MatchedDetections \cup UnmatchedDetections = 1..Len(detections)
    /\ MatchedTrackIds \cap UnmatchedTrackIds = {}
    /\ MatchedTrackIds \cup UnmatchedTrackIds = pre_track_ids

\* two detections compete for one track: the first takes it, the second,
\* although similar enough to it, is left unmatched
C5_Witness ==
    /\ Len(detections) = 2
    /\ Len(matching_result.matches) = 1
    /\ matching_result.unmatched_detections = <<2>>
    /\ \E id \in MatchedTrackIds \cap DOMAIN tracked_objects :
          /\ RatGT(CalculateIou(detections[2].bbox, Last(tracked_objects[id].bboxes)),
                   Rat(1, 2))
          /\ detections[2].class_id = tracked_objects[id].class_id

\* C6: a detection is only ever matched to a track of its own class id, and
\* a track keeps the class id and class name it was created with.
C6_MatchedSameClass ==
    \A k \in 1..Len(matching_result.matches) :
        LET det == detections[matching_result.matches[k][1]]
            id == matching_result.matches[k][2]
        IN /\ id \in DOMAIN tracked_objects
           /\ tracked_objects[id].class_id = det.class_id
           /\ tracked_objects[id].class_name = det.class_name

C6_ClassStep ==
    \A id \in DOMAIN tracked_objects \cap DOMAIN tracked_objects' :
        /\ tracked_objects'[id].class_id = tracked_objects[id].class_id
        /\ tracked_objects'[id].class_name = tracked_objects[id].class_name

C6_ClassNeverMixed == []C6_MatchedSameClass /\ [][C6_ClassStep]_vars

\* a detection whose box is identical to the box of a track of another class
\* was left unmatched, and so was that track
C6_Witness ==
    \E i \in UnmatchedDetections :
        \E id \in UnmatchedTrackIds \cap DOMAIN tracked_objects :
            /\ detections[i].class_id # tracked_objects[id].class_id
            /\ detections[i].bbox = Last(tracked_objects[id].bboxes)

\* C7: update returns exactly one entry per stable track left in the table
\* after expiry (matched in this frame or not) and nothing else; an entry
\* carries the latest bbox / center / area of its track, which for a track
\* matched in this frame are those of the matched detection.
C7_ReturnedStableTracks ==
    /\ ReturnedIds = {id \in DOMAIN tracked_objects : tracked_objects[id].is_stable}
    /\ Len(stable_objects) = Cardinality(ReturnedIds)
    /\ \A k \in 1..Len(stable_objects) :
          LET e == stable_objects[k]
              t == tracked_objects[e.track_id]
          IN /\ e.bbox = Last(t.bboxes)
             /\ e.center = Last(t.positions)
             /\ e.area = Last(t.areas)
             /\ \A m \in 1..Len(matching_result.matches) :
                   matching_result.matches[m][2] = e.track_id =>
                       LET det == detections[matching_result.matches[m][1]]
                       IN e.bbox = det.bbox /\ e.center = det.center
                          /\ e.area = det.area

\* a stable track that moved during its life and was not matched in the last
\* frame is returned next to a track that is not stable and is not returned
C7_Witness ==
    \E id \in ReturnedIds \cap UnmatchedTrackIds :
        /\ Last(tracked_objects[id].bboxes) # Head(tracked_objects[id].bboxes)
        /\ \E other \in DOMAIN tracked_objects :
              ~tracked_objects[other].is_stable /\ other \notin ReturnedIds

-----------------------------------------------------------------------------
(* Properties of the navigation decision *)

Analysed == nav_analysis # None
LeftZone == nav_analysis.zones.left
CenterZone == nav_analysis.zones.center
RightZone == nav_analysis.zones.right

\* the passable side zone with the higher zone score, left when the scores tie
BestSide ==
    IF LeftZone.passable
       /\ (~RightZone.passable
           \/ RatGE(CalculateZoneScore(LeftZone), CalculateZoneScore(RightZone)))
    THEN "left" ELSE "right"
OtherSide == IF BestSide = "left" THEN "right" ELSE "left"
SideScore(side) == CalculateZoneScore(nav_analysis.zones[side])

\* C8: for a non-empty detection list analyze_regions answers "forward" with
\* confidence 0.9 exactly when the center zone is passable (and answers
\* "forward" in no other case).
C8_ForwardIffCenterPassable ==
    (Analysed /\ nav_input.detections # <<>>) =>
        /\ (nav_analysis.recommended_direction = "forward"
            /\ nav_analysis.confidence = Rat(9, 10)) <=> CenterZone.passable
        /\ nav_analysis.recommended_direction = "forward" <=> CenterZone.passable

\* an object stands in the center zone, the zone is still passable, and the
\* answer is forward with confidence 0.9
C8_Witness ==
    /\ Analysed
    /\ CenterZone.object_count >= 1
    /\ CenterZone.passable
    /\ ~LeftZone.passable
    /\ nav_analysis.recommended_direction = "forward"
    /\ nav_analysis.confidence = Rat(9, 10)

\* C9 as stated: when the center zone is not passable and a side zone is,
\* the direction is the passable side with the higher score (left on a tie)
\* and the confidence is min(0.8, score of that side).
C9_Original ==
    (Analysed /\ ~CenterZone.passable /\ (LeftZone.passable \/ RightZone.passable)) =>
        /\ nav_analysis.recommended_direction = BestSide
        /\ nav_analysis.confidence = RatMin(Rat(8, 10), SideScore(BestSide))

\* C9 amended: when the center zone is BLOCKED and a side zone is passable,
\* the direction is the passable side with the higher score (left on a tie);
\* the confidence is min(0.8, score of that side) when that score is strictly
\* higher than the other side's score and 0.6 otherwise (so 0.6 on a tie).
\* When the center zone is neither passable nor blocked, the direction is
\* null and the confidence 0.0.
C9_SideChoice ==
    (Analysed /\ ~CenterZone.passable /\ (LeftZone.passable \/ RightZone.passable)) =>
        IF CenterZone.blocked
        THEN /\ nav_analysis.recommended_direction = BestSide
             /\ nav_analysis.confidence =
                   IF RatGT(SideScore(BestSide), SideScore(OtherSide))
                   THEN RatMin(Rat(8, 10), SideScore(BestSide))
                   ELSE Rat(6, 10)
        ELSE /\ nav_analysis.recommended_direction = NoDirection
             /\ nav_analysis.confidence = Rat(0, 1)

\* center blocked, both sides passable with equal scores: left is chosen,
\* with confidence 0.6
C9_Witness ==
    /\ Analysed
    /\ CenterZone.blocked
    /\ LeftZone.passable /\ RightZone.passable
    /\ SideScore("left") = SideScore("right")
    /\ nav_analysis.recommended_direction = "left"
    /\ nav_analysis.confidence = Rat(6, 10)

\* C10 as stated: when neither the center nor a side zone is passable the
\* decision is stop with confidence 0.9.
C10_Original ==
    (Analysed /\ ~CenterZone.passable /\ ~LeftZone.passable /\ ~RightZone.passable) =>
        /\ nav_analysis.recommended_direction = "stop"
        /\ nav_analysis.confidence = Rat(9, 10)

\* C10 amended: when the center zone is BLOCKED and neither side zone is
\* passable the decision is stop with confidence 0.9; when the center zone
\* is not passable without being blocked (and neither side is passable) the
\* direction is null with confidence 0.0.
C10_StopWhenBlockedIn ==
    (Analysed /\ ~CenterZone.passable /\ ~LeftZone.passable /\ ~RightZone.passable) =>
        IF CenterZone.blocked
        THEN /\ nav_analysis.recommended_direction = "stop"
             /\ nav_analysis.confidence = Rat(9, 10)
        ELSE /\ nav_analysis.recommended_direction = NoDirection
             /\ nav_analysis.confidence = Rat(0, 1)

\* all three zones blocked: stop
C10_Witness ==
    /\ Analysed
    /\ CenterZone.blocked /\ LeftZone.blocked /\ RightZone.blocked
    /\ nav_analysis.recommended_direction = "stop"
    /\ nav_analysis.confidence = Rat(9, 10)

\* C11: the decision never sends the user into a zone that is not passable:
\* left only when the left zone is passable, right only when the right zone
\* is passable, forward only when the center zone is passable.
C11_DirectionOnlyIntoPassable ==
    Analysed =>
        /\ nav_analysis.recommended_direction = "left" => LeftZone.passable
        /\ nav_analysis.recommended_direction = "right" => RightZone.passable
        /\ nav_analysis.recommended_direction = "forward" => CenterZone.passable

\* center blocked, the right zone is not blocked but not passable either (it
\* keeps a positive score), the left zone is passable: the answer is left
C11_Witness ==
    /\ Analysed
    /\ CenterZone.blocked
    /\ ~RightZone.blocked /\ ~RightZone.passable
    /\ RatGT(SideScore("right"), Rat(0, 1))
    /\ LeftZone.passable
    /\ nav_analysis.recommended_direction = "left"

\* C12: with zero detections analyze_regions answers forward with confidence
\* 1.0 and reports all three zones safe, not blocked and passable, whatever
\* the frame shape.
C12_EmptyFrameForward ==
    (Analysed /\ nav_input.detections = <<>>) =>
        /\ nav_analysis.recommended_direction = "forward"
        /\ nav_analysis.confidence = Rat(1, 1)
        /\ \A z \in Range(ZoneNames) :
              /\ nav_analysis.zones[z].risk_level = "safe"
              /\ ~nav_analysis.zones[z].blocked
              /\ nav_analysis.zones[z].passable

\* an empty frame of the second shape has been analysed
C12_Witness ==
    /\ Analysed
    /\ nav_input.detections = <<>>
    /\ nav_input.frame_shape # NavFrameShape
    /\ nav_analysis.recommended_direction = "forward"
    /\ nav_analysis.confidence = Rat(1, 1)
    /\ nav_analysis.safe_zones = ZoneNames

\* the zone's member list holds an object whose urgency is 3
HasUrgency3(zone) ==
    \E k \in 1..Len(zone.objects) :
        "urgency" \in DOMAIN zone.objects[k] /\ zone.objects[k].urgency = 3

\* C13: a zone that contains an object of urgency 3 is blocked; when that zone
\* is the center zone the decision is not forward, and when the left and
\* right zones are blocked as well the decision is stop.
C13_Urgency3Blocks ==
    (Analysed /\ nav_input.detections # <<>>) =>
        /\ \A z \in Range(ZoneNames) :
              HasUrgency3(nav_analysis.zones[z]) => nav_analysis.zones[z].blocked
        /\ HasUrgency3(CenterZone) =>
              /\ nav_analysis.center_blocked
              /\ nav_analysis.recommended_direction # "forward"
              /\ (LeftZone.blocked /\ RightZone.blocked) =>
                    nav_analysis.recommended_direction = "stop"

\* one urgency-3 object, alone in the frame and in the center zone, of low
\* density: the center is blocked and the answer is not forward
C13_Witness ==
    /\ Analysed
    /\ Len(nav_input.detections) = 1
    /\ HasUrgency3(CenterZone)
    /\ ~RatGT(CenterZone.density, DensityThresholds.medium)
    /\ nav_analysis.center_blocked
    /\ nav_analysis.recommended_direction = "left"

\* the zones whose member list holds the k-th detection of the analysed frame
ZonesOf(k) ==
    {z \in Range(ZoneNames) :
        nav_input.detections[k] \in Range(nav_analysis.zones[z].objects)}

\* the center point of the k-th detection lies inside the frame
CenterInFrame(k) ==
    /\ 0 <= nav_input.detections[k].center[1]
    /\ nav_input.detections[k].center[1] <= nav_input.frame_shape[2]
    /\ 0 <= nav_input.detections[k].center[2]
    /\ nav_input.detections[k].center[2] <= nav_input.frame_shape[1]

\* C14: the zones partition the frame width: every detection whose center
\* point lies inside the frame is a member of exactly one of the left, center
\* and right zones, centers on a zone boundary included.
C14_ExactlyOneZone ==
    (Analysed /\ nav_input.detections # <<>>) =>
        \A k \in 1..Len(nav_input.detections) :
            CenterInFrame(k) => Cardinality(ZonesOf(k)) = 1

\* what the zone membership test does guarantee: no gaps, and an overlap only
\* for a center point on the boundary shared by two neighbouring zones
C14_NoGapBoundaryOverlap ==
    (Analysed /\ nav_input.detections # <<>>) =>
        \A k \in 1..Len(nav_input.detections) :
            CenterInFrame(k) =>
                \/ Cardinality(ZonesOf(k)) = 1
                \/ /\ ZonesOf(k) \in {{"left", "center"}, {"center", "right"}}
                   /\ nav_input.detections[k].center[1] \in
                         {(nav_input.frame_shape[2] * 33) \div 100,
                          (nav_input.frame_shape[2] * 67) \div 100}

\* the urgency the zone analysis uses for its k-th member: the detection's
\* urgency, or the score derived from its size when it carries none
MemberUrgency(zone, k) == RiskScore(zone.objects[k], nav_input.frame_shape)

\* one of the four blocking conditions holds of the zone
BlockingCondition(zone) ==
    \/ RatGT(zone.density, Rat(4, 10))
    \/ \E k \in 1..Len(zone.objects) : MemberUrgency(zone, k) >= 3
    \/ zone.object_count >= MAX_OBJECTS_PER_ZONE
    \/ /\ RatGT(zone.density, Rat(2, 10))
       /\ RatGE(Rat(SeqSum([k \in 1..Len(zone.objects) |-> MemberUrgency(zone, k)]),
                    Len(zone.objects)),
                Rat(2, 1))

\* C15: a zone is blocked if and only if it has at least one member and one of
\* these holds: density > 0.4; some member has urgency >= 3; member count >=
\* MAX_OBJECTS_PER_ZONE; density > 0.2 and mean urgency >= 2.  A zone without
\* members is never blocked.
C15_BlockedIff ==
    (Analysed /\ nav_input.detections # <<>>) =>
        \A z \in Range(ZoneNames) :
            LET zone == nav_analysis.zones[z]
            IN /\ zone.object_count = Len(zone.objects)
               /\ zone.blocked <=> (zone.object_count >= 1 /\ BlockingCondition(zone))
               /\ zone.object_count = 0 => ~zone.blocked

\* the left zone is blocked by the fourth condition alone: one member of
\* urgency 2 and a density between 0.2 and 0.4, next to a zone without
\* members, which is not blocked
C15_Witness ==
    /\ Analysed
    /\ LeftZone.blocked
    /\ LeftZone.object_count = 1
    /\ MemberUrgency(LeftZone, 1) = 2
    /\ RatGT(LeftZone.density, Rat(2, 10))
    /\ ~RatGT(LeftZone.density, Rat(4, 10))
    /\ RightZone.object_count = 0
    /\ ~RightZone.blocked

\* C16: in every zone analysis analyze_regions produces, on the general path
\* and on the empty-frame path, passable holds exactly when the zone is not
\* blocked and its risk level is safe or low; safe_zones lists exactly the
\* passable zones.
C16_PassableAndSafeZones ==
    Analysed =>
        /\ \A z \in Range(ZoneNames) :
              nav_analysis.zones[z].passable <=>
                 (~nav_analysis.zones[z].blocked
                  /\ nav_analysis.zones[z].risk_level \in {"safe", "low"})
        /\ Range(nav_analysis.safe_zones) =
              {z \in Range(ZoneNames) : nav_analysis.zones[z].passable}
        /\ Len(nav_analysis.safe_zones) = Cardinality(Range(nav_analysis.safe_zones))

\* the right zone is not blocked but of medium risk, hence not passable, and
\* safe_zones lists the other two zones
C16_Witness ==
    /\ Analysed
    /\ ~RightZone.blocked
    /\ RightZone.risk_level = "medium"
    /\ ~RightZone.passable
    /\ nav_analysis.safe_zones = <<"left", "center">>

-----------------------------------------------------------------------------
(* Properties of the distance checker *)

Returned(call) == call # None /\ call.result # ZeroDivisionError

\* C17: for a fixed class name and frame area, a larger detection area never
\* gives a smaller urgency.
C17_UrgencyMonotonic ==
    (/\ Returned(dc_prev) /\ Returned(dc_last)
     /\ dc_prev.class_name = dc_last.class_name
     /\ dc_prev.frame_area = dc_last.frame_area
     /\ dc_prev.area <= dc_last.area) =>
        dc_prev.result.urgency <= dc_last.result.urgency

\* two calls for the same class and frame, the second with the larger area:
\* the urgency went from 1 to 2
C17_Witness ==
    /\ Returned(dc_prev) /\ Returned(dc_last)
    /\ dc_prev.class_name = dc_last.class_name
    /\ dc_prev.frame_area = dc_last.frame_area
    /\ dc_prev.area < dc_last.area
    /\ dc_prev.result.urgency = 1
    /\ dc_last.result.urgency = 2

\* C18: the result follows the descending ladder on the class's table (the
\* default table for a class without one): relative_size >= very_close gives
\* very_close / 3, else >= close gives close / 2, else >= medium gives
\* medium / 1, else far / 0; is_close holds exactly when urgency >= 1.  A
\* person of area 10,000 in a 640 x 480 frame is far with urgency 0.
C18_ThresholdLadder ==
    Returned(dc_last) =>
        LET result == dc_last.result
            size == result.relative_size
            table == IF dc_last.class_name \in DOMAIN DistanceThresholds
                     THEN DistanceThresholds[dc_last.class_name]
                     ELSE DistanceThresholds.default
            rung == IF RatGE(size, Rat(table.very_close, 100)) THEN <<"very_close", 3>>
                    ELSE IF RatGE(size, Rat(table.close, 100)) THEN <<"close", 2>>
                    ELSE IF RatGE(size, Rat(table.medium, 100)) THEN <<"medium", 1>>
                    ELSE <<"far", 0>>
        IN /\ dc_last.frame_area > 0 => size = Rat(dc_last.area, dc_last.frame_area)
           /\ result.distance_level = rung[1]
           /\ result.urgency = rung[2]
           /\ result.is_close <=> result.urgency >= 1
           /\ (/\ dc_last.class_name = "person"
               /\ dc_last.area = 10000
               /\ dc_last.frame_area = 640 * 480) =>
                 /\ DistanceThresholds.person.medium = 4
                 /\ result.distance_level = "far"
                 /\ result.urgency = 0
                 /\ ~result.is_close

\* the person of area 10,000 in the 640 x 480 frame has been classified
C18_Witness ==
    /\ Returned(dc_last)
    /\ dc_last.class_name = "person"
    /\ dc_last.area = 10000
    /\ dc_last.frame_area = 640 * 480
    /\ dc_last.result.distance_level = "far"
    /\ dc_last.result.urgency = 0

\* C19: a call with a zero or negative frame area does not fail and returns
\* relative_size = 0, hence far with urgency 0.
C19_NoErrorOutcome ==
    (dc_last # None /\ dc_last.frame_area <= 0) =>
        /\ dc_last.result # ZeroDivisionError
        /\ dc_last.result.relative_size = Rat(0, 1)
        /\ dc_last.result.distance_level = "far"
        /\ dc_last.result.urgency = 0

-----------------------------------------------------------------------------
(* Properties of calculate_iou *)

WellFormed(box) == box[1] <= box[3] /\ box[2] <= box[4]
NonDegenerate(box) == box[1] < box[3] /\ box[2] < box[4]

\* the boxes share no interior point; boxes that only touch are disjoint
Disjoint(a, b) ==
    \/ a[3] <= b[1] \/ b[3] <= a[1]
    \/ a[4] <= b[2] \/ b[4] <= a[2]

\* C20: calculate_iou gives 1.0 for two identical non-degenerate boxes, 0.0
\* for two disjoint boxes (boxes that only touch along an edge included), and
\* calculate_iou(a, b) = calculate_iou(b, a) for all boxes a, b.
C20_IouIdentities ==
    iou_call # None =>
        /\ (iou_call.a = iou_call.b /\ NonDegenerate(iou_call.a)) =>
              iou_call.iou_ab = Rat(1, 1)
        /\ (/\ WellFormed(iou_call.a) /\ WellFormed(iou_call.b)
            /\ Disjoint(iou_call.a, iou_call.b)) =>
              iou_call.iou_ab = Rat(0, 1)
        /\ iou_call.iou_ab = iou_call.iou_ba

\* two non-degenerate boxes that touch along a vertical edge: both calls give 0.0
C20_Witness ==
    /\ iou_call # None
    /\ NonDegenerate(iou_call.a) /\ NonDegenerate(iou_call.b)
    /\ iou_call.a[3] = iou_call.b[1]
    /\ iou_call.a[2] < iou_call.b[4] /\ iou_call.b[2] < iou_call.a[4]
    /\ iou_call.iou_ab = Rat(0, 1)
    /\ iou_call.iou_ba = Rat(0, 1)

-----------------------------------------------------------------------------
(* Properties of the voice alert queue and its worker *)

\* C21: the alert queue never holds more than MAX_ALERT_QUEUE_SIZE messages
\* (a put at that depth is rejected and leaves the queue as it was).
\* Violated: the queue is created without a size, no producer asks
\* is_queue_full, and the eleventh put is accepted like any other.
C21_QueueBounded == Len(alert_queue) <= MAX_ALERT_QUEUE_SIZE

\* C22: at most one utterance (engine.say / runAndWait) is in progress at any
\* time, in every interleaving of the alert threads, the worker, toggle_sound,
\* switch_language, start_worker_thread and cleanup.
C22_OneUtterance == Cardinality(Speaking) <= 1

\* an utterance is in progress while a message waits, an alert thread is
\* inside a call and cleanup has begun
C22_Witness ==
    /\ Cardinality(Speaking) = 1
    /\ alert_queue # <<>>
    /\ \E p \in Producers : producers[p] # Idle
    /\ cleaner # "idle"

\* C23: a message of priority 3 put while an utterance is in progress
\* interrupts that utterance (engine.stop()): the utterance does not run to
\* its end.  Violated: the worker is inside runAndWait and takes the message
\* only after the utterance has ended, when is_speaking is False again.
C23_Priority3Interrupts ==
    \A i \in 1..Len(accepted) :
        (accepted[i].priority = 3 /\ accepted[i].during # 0)
            => accepted[i].during \notin completed

\* C24: the worker takes the messages in the order of their puts, whatever
\* their priorities, and speaks those it speaks in that order.
C24_FifoDelivery ==
    /\ \A i, j \in 1..Len(dequeued) : i < j => dequeued[i] < dequeued[j]
    /\ \A i, j \in 1..Len(spoken) : i < j => spoken[i].seq < spoken[j].seq

\* two messages were spoken, the less urgent first, the more urgent second
C24_Witness ==
    /\ Len(dequeued) >= 2
    /\ Len(spoken) >= 2
    /\ spoken[1].priority < spoken[2].priority

-----------------------------------------------------------------------------
(* Properties of the alert throttles *)

\* the interval between two alerts of one track: 3 s below 3 m, 6 s below
\* 6 m, 10 s from 6 m on (tenths of a second, decimetres)
ThrottleInterval(distance) ==
    IF distance < 30 THEN 30
    ELSE IF distance < 60 THEN 60
    ELSE 100

\* C25: an alert of a track is accepted only when at least 3 s (nearer than
\* 3 m), 6 s (nearer than 6 m) or 10 s (otherwise) have passed since the last
\* accepted alert of that track, and it leaves the throttle state of every
\* other track as it was.  Violated by should_distance_alert, whose intervals
\* are 2.5 s, 5 s and 10 s: at 2.0 m a second alert is accepted 2.9 s after
\* the first.
C25_PerTrackThrottle ==
    distance_call # None =>
        /\ distance_call.result =>
              distance_call.time - distance_call.before[distance_call.track_id]
                  >= ThrottleInterval(AvgDistance(distance_call.distances))
        /\ \A other \in DemoTracks \ {distance_call.track_id} :
              last_distance_alerts[other] = distance_call.before[other]

\* the scheduler of the demo loops does keep these intervals: a stable
\* detection is alerted exactly when the interval of its distance has passed
\* since the last alert of its track, and only the entry of its track changes
DemoLoopThrottle ==
    demo_call # None =>
        LET last == IF demo_call.track_id \in DOMAIN demo_call.before
                    THEN demo_call.before[demo_call.track_id] ELSE 0
        IN /\ demo_call.alerted <=>
                 (demo_call.is_stable
                  /\ demo_call.time - last >= ThrottleInterval(demo_call.distance))
           /\ \A other \in DOMAIN demo_call.before \ {demo_call.track_id} :
                 /\ other \in DOMAIN last_track_alerts
                 /\ last_track_alerts[other] = demo_call.before[other]
           /\ DOMAIN last_track_alerts \subseteq
                 DOMAIN demo_call.before \cup {demo_call.track_id}

\* the demo loop alerted a track at 2.0 m a second time, 3.1 s after the first
DemoLoopSecondAlert ==
    /\ demo_call # None
    /\ demo_call.alerted
    /\ demo_call.distance = 20
    /\ demo_call.track_id \in DOMAIN demo_call.before
    /\ demo_call.time - demo_call.before[demo_call.track_id] = 31

\* positions in the history of puts that are direction alerts
DirectionPuts == {i \in 1..Len(accepted) : accepted[i].type = "direction_alert"}

\* a give_direction call that returns without a put
GiveDirectionRejected == GiveDirectionCheck(1) /\ producers'[1] = Idle

\* C26: whatever the directions asked for, when the give_direction calls come
\* one after the other no two direction alerts are put less than
\* DIRECTION_ALERT_INTERVAL apart, and a rejected call leaves the queue and
\* last_direction_alert as they were.
C26_DirectionThrottle ==
    /\ [](\A i, j \in DirectionPuts :
              i < j => accepted[j].time - accepted[i].time >= DIRECTION_ALERT_INTERVAL)
    /\ [][GiveDirectionRejected =>
              /\ alert_queue' = alert_queue
              /\ last_direction_alert' = last_direction_alert
              /\ accepted' = accepted]_vars

\* two direction alerts for different directions were put, the second one
\* after the first had stamped last_direction_alert
C26_Witness ==
    \E i, j \in DirectionPuts :
        /\ i < j
        /\ accepted[i].text # accepted[j].text
        /\ last_direction_alert = accepted[j].time

\* the interval of the gate a message type has passed
GateInterval(type) ==
    IF type = "direction_alert" THEN DIRECTION_ALERT_INTERVAL
    ELSE GENERAL_ANNOUNCE_INTERVAL

\* C27: the test of the last alert time and its update exclude each other
\* between alert threads: of the give_direction (or announce_objects) calls
\* made within one interval at most one puts a message.  Violated: two
\* threads both pass the test before either writes the timestamp.
C27_AtomicGates ==
    \A i, j \in 1..Len(accepted) :
        (/\ i < j
         /\ accepted[i].type = accepted[j].type
         /\ accepted[i].type \in {"direction_alert", "general_announce"})
            => accepted[j].time - accepted[i].time >= GateInterval(accepted[i].type)

\* positions in the history of puts that are general announcements
GeneralPuts == {i \in 1..Len(accepted) : accepted[i].type = "general_announce"}

\* the steps of announce_objects, and those of the other throttled producers
AnnounceObjectsStep ==
    AnnounceObjectsCheck(1) \/ AnnounceObjectsPut(1) \/ AnnounceObjectsSet(1)

OtherAlertStep ==
    \/ GiveDirectionCheck(1) \/ GiveDirectionPut(1) \/ GiveDirectionSet(1)
    \/ AlertCloseObjectCheck(1) \/ AlertCloseObjectSet(1) \/ AlertCloseObjectPut(1)

\* the entries of last_alerts other than the general announcement's
ObjectKeys(map) == DOMAIN map \ {GeneralAnnounceKey}

\* C28: general announcements are put at least GENERAL_ANNOUNCE_INTERVAL
\* apart; an announce_objects call, accepted or rejected, leaves the
\* per-object timestamps and last_direction_alert as they were, and object
\* and direction alerts leave the general announcement's timestamp as it was.
C28_GeneralThrottleIndependent ==
    /\ [](\A i, j \in GeneralPuts :
              i < j => accepted[j].time - accepted[i].time >= GENERAL_ANNOUNCE_INTERVAL)
    /\ [][AnnounceObjectsStep =>
              /\ last_direction_alert' = last_direction_alert
              /\ ObjectKeys(last_alerts') = ObjectKeys(last_alerts)
              /\ \A k \in ObjectKeys(last_alerts) : last_alerts'[k] = last_alerts[k]]_vars
    /\ [][OtherAlertStep =>
              /\ (GeneralAnnounceKey \in DOMAIN last_alerts')
                    = (GeneralAnnounceKey \in DOMAIN last_alerts)
              /\ GeneralAnnounceKey \in DOMAIN last_alerts =>
                    last_alerts'[GeneralAnnounceKey] = last_alerts[GeneralAnnounceKey]]_vars

\* a general announcement was accepted 9 s after an object alert, inside the
\* object's and the direction's intervals, and each timestamp is its own
C28_Witness ==
    /\ GeneralAnnounceKey \in DOMAIN last_alerts
    /\ \E k \in ObjectKeys(last_alerts) :
          last_alerts[GeneralAnnounceKey] = last_alerts[k] + 9
    /\ last_direction_alert = 0

\* C29: once cleanup has set stop_thread no queued message starts being
\* spoken, and what clear_queue removes is never spoken.  Violated: a worker
\* that has passed the test of stop_thread and waits in get takes the next
\* message and speaks it.
C29_NoSpeechAfterStop ==
    /\ \A i \in 1..Len(spoken) : ~spoken[i].after_stop
    /\ \A i \in 1..Len(spoken) : spoken[i].seq \notin drained

-----------------------------------------------------------------------------
(* Properties of the tracker's ingestion *)

\* a bounding box with x2 <= x1 or y2 <= y1
DegenerateBox(bbox) == bbox[3] <= bbox[1] \/ bbox[4] <= bbox[2]

\* the last update call ended in an exception
UpdateRaised == stable_objects = KeyError

\* no track holds a box taken from a detection with a degenerate box
NoDegenerateBoxTracked ==
    \A id \in DOMAIN tracked_objects :
        \A k \in 1..Len(tracked_objects[id].bboxes) :
            ~DegenerateBox(tracked_objects[id].bboxes[k])

\* an update call that raises leaves the track table and next_track_id alone
FailedUpdateAllOrNothing ==
    [][(frame_count' # frame_count /\ UpdateRaised') =>
          /\ tracked_objects' = tracked_objects
          /\ next_track_id' = next_track_id]_vars

\* C30: update rejects a malformed detection (x2 <= x1, y2 <= y1, or no
\* geometry): no track is created or updated from such a detection, and an
\* update that fails leaves the track table as it was.
\* Violated: a box of width 0 starts a track, and the update that fails on a
\* detection without bbox has already created the track of the detection
\* before it.
C30_RejectsMalformed == []NoDegenerateBoxTracked /\ FailedUpdateAllOrNothing

-----------------------------------------------------------------------------
(* Properties of the alert messages *)

\* C31: every message put on the alert queue has priority 1, 2 or 3, whatever
\* urgency, distance level or distance the detection carries.  Violated by
\* alert_close_object of src/voice_alert.py, which puts the detection's
\* urgency as the priority: urgency 0 gives priority 0, urgency 5 priority 5.
C31_PriorityRange ==
    \A i \in 1..Len(accepted) : accepted[i].priority \in {1, 2, 3}

-----------------------------------------------------------------------------
(* Properties of the tracker's frame protocol *)

\* C32: in one update call every track that was in the table takes one of two
\* transitions: matched (missed_frames 0, consecutive_detections + 1,
\* last_seen refreshed) or unmatched (missed_frames + 1,
\* consecutive_detections 0, last_seen kept); a matched track is never
\* removed, and an empty frame matches nothing and creates no track.
C32_CounterProtocol ==
    [][frame_count' # frame_count =>
          LET matched == MatchedIds(matching_result')
          IN /\ matched \subseteq DOMAIN tracked_objects
             /\ matched \subseteq DOMAIN tracked_objects'
             /\ \A id \in DOMAIN tracked_objects \cap DOMAIN tracked_objects' :
                   LET old == tracked_objects[id]
                       new == tracked_objects'[id]
                   IN IF id \in matched
                      THEN /\ new.missed_frames = 0
                           /\ new.consecutive_detections = old.consecutive_detections + 1
                           /\ new.last_seen = now'
                      ELSE /\ new.missed_frames = old.missed_frames + 1
                           /\ new.consecutive_detections = 0
                           /\ new.last_seen = old.last_seen
             /\ detections' = <<>> =>
                   /\ matched = {}
                   /\ next_track_id' = next_track_id
                   /\ DOMAIN tracked_objects' \subseteq DOMAIN tracked_objects]_vars

\* after an update, one older track was matched again and another one missed
\* its second frame in a row
C32_Witness ==
    \E id1, id2 \in pre_track_ids \cap DOMAIN tracked_objects :
        /\ id1 \in MatchedIds(matching_result)
        /\ tracked_objects[id1].consecutive_detections >= 2
        /\ id2 \notin MatchedIds(matching_result)
        /\ tracked_objects[id2].missed_frames >= 2

\* the track a detection index was matched to, 0 when it was not matched
MatchedTrack(result, i) ==
    IF \E k \in 1..Len(result.matches) : result.matches[k][1] = i
    THEN result.matches[CHOOSE k \in 1..Len(result.matches) :
                            result.matches[k][1] = i][2]
    ELSE 0

\* the tracks taken by the detections before index i
UsedBefore(result, i) ==
    {result.matches[k][2] : k \in {n \in 1..Len(result.matches) :
                                      result.matches[n][1] < i}}

\* C33: the detections are served in list order; each one is matched to the
\* track not used by an earlier detection that has the highest similarity,
\* provided that similarity is strictly above 0.3, the first such track in
\* table order when several are equally good; a detection with no such track
\* is unmatched, whatever a different assignment could have matched.
C33_GreedyAssignment ==
    [][frame_count' # frame_count =>
          LET result == matching_result'
              sim(i, id) == Similarity(detections'[i],
                                       GetCurrentDetection(tracked_objects[id], now'))
          IN \A i \in 1..Len(detections') :
                LET candidates == {id \in DOMAIN tracked_objects \ UsedBefore(result, i) :
                                      RatGT(sim(i, id), Rat(3, 10))}
                    chosen == MatchedTrack(result, i)
                IN IF candidates = {}
                   THEN /\ chosen = 0
                        /\ i \in Range(result.unmatched_detections)
                   ELSE /\ chosen \in candidates
                        /\ i \notin Range(result.unmatched_detections)
                        /\ \A other \in candidates :
                              /\ RatGE(sim(i, chosen), sim(i, other))
                              /\ RatEQ(sim(i, chosen), sim(i, other))
                                    => chosen <= other]_vars

\* the frame <<P110, P50>> met two tracks: P110 took track 1, and P50, left
\* with track 2 alone, stayed unmatched and started a track of its own
C33_Witness ==
    /\ Len(detections) = 2
    /\ detections[1].bbox = P110.bbox
    /\ detections[2].bbox = P50.bbox
    /\ {1, 2} \subseteq pre_track_ids
    /\ matching_result.matches = <<<<1, 1>>>>
    /\ matching_result.unmatched_detections = <<2>>

\* the last n entries of s, in order
MostRecent(s, n) == SubSeq(s, IF Len(s) > n THEN Len(s) - n + 1 ELSE 1, Len(s))

HistoriesWithinBounds ==
    \A id \in DOMAIN tracked_objects :
        LET t == tracked_objects[id] IN
        /\ Len(t.positions) <= 10
        /\ Len(t.bboxes) = Len(t.positions)
        /\ Len(t.areas) = Len(t.positions)
        /\ Len(t.confidences) = Len(t.positions)
        /\ Len(t.distances) <= 5

HistoriesKeepMostRecent ==
    [][frame_count' # frame_count =>
          \A k \in 1..Len(matching_result'.matches) :
              LET detection == detections'[matching_result'.matches[k][1]]
                  old == tracked_objects[matching_result'.matches[k][2]]
                  new == tracked_objects'[matching_result'.matches[k][2]]
              IN /\ new.positions = MostRecent(Append(old.positions, detection.center), 10)
                 /\ new.bboxes = MostRecent(Append(old.bboxes, detection.bbox), 10)
                 /\ new.areas = MostRecent(Append(old.areas, detection.area), 10)
                 /\ new.confidences =
                       MostRecent(Append(old.confidences, detection.confidence), 10)
                 /\ new.distances =
                       MostRecent(Append(old.distances, detection.distance_meters), 5)]_vars

\* C34: positions, bboxes, areas and confidences of a track hold at most 10
\* entries and have equal lengths, the distance history holds at most 5; an
\* update appends the detection's values and, when the history is full, drops
\* the oldest entry, so each history is the most recent values in arrival order.
C34_HistoriesBounded == []HistoriesWithinBounds /\ HistoriesKeepMostRecent

\* a track whose eleventh update pushed the first entry out of full histories
C34_Witness ==
    /\ frame_count >= 12
    /\ \E id \in DOMAIN tracked_objects :
          /\ Len(tracked_objects[id].positions) = 10
          /\ Len(tracked_objects[id].distances) = 5
          /\ tracked_objects[id].consecutive_detections >= 12
          /\ tracked_objects[id].areas[1] # tracked_objects[id].areas[10]

DirectionsSpoken ==
    {accepted[i].text : i \in {n \in 1..Len(accepted) :
                                  accepted[n].type = "direction_alert"}}

\* C35: in every result of analyze_regions a blocked center comes with the
\* recommended direction left, right or stop, never forward and never null;
\* so the direction alerts that handle_alerts puts on the queue, given only
\* when the center is blocked, never say forward.
C35_BlockedNeverForward ==
    /\ (Analysed /\ nav_analysis.center_blocked) =>
          nav_analysis.recommended_direction \in {"left", "right", "stop"}
    /\ DirectionsSpoken \subseteq {"left", "right", "stop"}

\* the analysis of a frame with all three zones blocked says stop, and
\* handle_alerts has put that direction on the queue
C35_Witness ==
    /\ Analysed
    /\ nav_analysis.center_blocked
    /\ nav_analysis.recommended_direction = "stop"
    /\ put_count >= 1
    /\ accepted[Len(accepted)].type = "direction_alert"
    /\ accepted[Len(accepted)].text = "stop"

\* C36: every entry returned by update carries a distance: a stable track has
\* a non-empty distance history, because the track became stable through
\* matched updates and each of them recorded the detection's distance, which
\* update had filled in where it was missing.
C36_ReturnedWithDistance ==
    /\ \A id \in DOMAIN tracked_objects :
          tracked_objects[id].is_stable => tracked_objects[id].distances # <<>>
    /\ \A i \in 1..Len(stable_objects) : stable_objects[i].distance_meters # None

\* a track returned on its third frame: three positions, but two distances,
\* the creating detection's distance not being recorded
C36_Witness ==
    /\ Len(stable_objects) >= 1
    /\ stable_objects[1].distance_meters = [num |-> 120, den |-> 2]
    /\ \E id \in DOMAIN tracked_objects :
          /\ tracked_objects[id].is_stable
          /\ Len(tracked_objects[id].positions) = 3
          /\ Len(tracked_objects[id].distances) = 2

SpokenSeqs == {spoken[i].seq : i \in 1..Len(spoken)}

\* every message the worker took and is done with was spoken
NoMessageSkipped ==
    \A i \in 1..Len(dequeued) :
        \/ dequeued[i] \in SpokenSeqs
        \/ \E w \in WorkerIds :
              /\ workers[w].pc = "process"
              /\ workers[w].message.seq = dequeued[i]

\* C37: while the sound stays enabled, the engine is available and cleanup has
\* not signalled the stop, every message put on the queue is eventually taken
\* by the worker and spoken to the end, provided the worker keeps running and
\* every utterance ends; and the worker never drops a message it took because
\* an utterance is in progress.
C37_EveryAlertSpoken ==
    /\ \A k \in 1..(MaxMessages + 1) : (put_count >= k) ~> (k \in completed)
    /\ [](is_enabled /\ engine /\ ~stop_thread)
    /\ []NoMessageSkipped

\* two messages were put before the worker took the first, and both have been
\* spoken to the end in the order of their arrival
C37_Witness ==
    /\ put_count >= 2
    /\ accepted[2].during = 0
    /\ 2 \in completed
    /\ Len(spoken) >= 2
    /\ spoken[1].seq = 1
    /\ spoken[2].seq = 2
    /\ alert_queue = <<>>

\* C38: while the sound is off the worker starts no utterance, and a message
\* the worker takes from the queue while the sound is off is dropped for good:
\* it is never spoken, not even after the sound has been turned on again; the
\* sound_off message of toggle_sound is among them.
C38_MutedNeverSpoken ==
    /\ [](\A i \in 1..Len(spoken) : ~spoken[i].muted)
    /\ [][spoken' # spoken => is_enabled]_vars

\* the tracks the call recorded in alert_call accepted
AcceptedBy(call) ==
    IF call.op = "should_alert"
    THEN IF call.result THEN {call.track_id} ELSE {}
    ELSE {call.result[i].track_id : i \in 1..Len(call.result)}

AlertFields(t) == <<t.last_alert_time, t.alert_count, t.last_distance_alert>>

\* a track that is not stable has never been accepted
UnstableNeverAlerted ==
    \A id \in DOMAIN tracked_objects :
        ~tracked_objects[id].is_stable => AlertFields(tracked_objects[id]) = <<0, 0, 0>>

\* what one call of should_alert or get_objects_for_alerts does to each track
AlertCallStep ==
    [][(frame_count' = frame_count /\ alert_call' # None) =>
          LET call == alert_call'
              interval == IF call.op = "should_alert" THEN call.alert_interval
                          ELSE ALERT_INTERVAL
          IN /\ DOMAIN tracked_objects' = DOMAIN tracked_objects
             /\ \A id \in DOMAIN tracked_objects :
                   LET old == tracked_objects[id]
                       new == tracked_objects'[id]
                   IN IF id \in AcceptedBy(call)
                      THEN /\ old.is_stable
                           /\ now - old.last_alert_time >= interval
                           /\ new.last_alert_time = now
                           /\ new.alert_count = old.alert_count + 1
                           /\ new = [old EXCEPT
                                       !.last_alert_time = now,
                                       !.alert_count = old.alert_count + 1,
                                       !.last_distance_alert = new.last_distance_alert]
                           /\ new.last_distance_alert # old.last_distance_alert =>
                                 call.op = "get_objects_for_alerts"
                      ELSE new = old]_vars

\* update leaves the alert state of the tracks it keeps alone
UpdateKeepsAlertState ==
    [][frame_count' # frame_count =>
          \A id \in DOMAIN tracked_objects \cap DOMAIN tracked_objects' :
              AlertFields(tracked_objects'[id]) = AlertFields(tracked_objects[id])]_vars

\* C39: should_alert never accepts for a track that is not stable; an accepted
\* call comes at least alert_interval after the previous accepted call of the
\* track, stamps the track and adds one to alert_count; a rejected call
\* changes nothing, so alert_count is the number of accepted calls; and
\* get_objects_for_alerts touches the distance gate of a track (and its
\* timestamp) only in a call in which should_alert accepted that track.
C39_AlertGate == []UnstableNeverAlerted /\ AlertCallStep /\ UpdateKeepsAlertState

\* get_objects_for_alerts has just accepted track 1 for the second time, ten
\* seconds or more after the first, while track 2 is in the table, not yet
\* stable and untouched
C39_Witness ==
    /\ alert_call # None
    /\ alert_call.op = "get_objects_for_alerts"
    /\ alert_call.time = now
    /\ Len(alert_call.result) = 1
    /\ alert_call.result[1].track_id = 1
    /\ alert_call.result[1].alert_count = 2
    /\ 2 \in DOMAIN tracked_objects
    /\ ~tracked_objects[2].is_stable
    /\ tracked_objects[1].last_alert_time = now

\* the tracks created by the update call that has just returned
CreatedNow == DOMAIN tracked_objects \ pre_track_ids

\* C40: a track created during an update call is, at the end of that call, in
\* the table with hit counter 1 and miss counter 0 and not stable, and is not
\* in the returned list; it is neither marked missed nor matched by another
\* detection of its creation frame, so every unmatched detection of the frame
\* has a track of its own.
C40_NewTrackState ==
    /\ Cardinality(CreatedNow) = Len(matching_result.unmatched_detections)
    /\ \A id \in CreatedNow :
          /\ tracked_objects[id].consecutive_detections = 1
          /\ tracked_objects[id].missed_frames = 0
          /\ ~tracked_objects[id].is_stable
          /\ Len(tracked_objects[id].positions) = 1
          /\ id \notin MatchedIds(matching_result)
          /\ id \notin Range(matching_result.unmatched_tracks)
          /\ \A i \in 1..Len(stable_objects) : stable_objects[i].track_id # id
          /\ \E i \in Range(matching_result.unmatched_detections) :
                /\ tracked_objects[id].bboxes = <<detections[i].bbox>>
                /\ tracked_objects[id].class_id = detections[i].class_id

\* the frame held the same person twice and the table was empty of persons at
\* that place: two distinct tracks were created, one per detection
C40_Witness ==
    /\ Len(detections) = 2
    /\ detections[1].bbox = detections[2].bbox
    /\ detections[1].class_id = detections[2].class_id
    /\ matching_result.unmatched_detections = <<1, 2>>
    /\ Cardinality(CreatedNow) = 2
    /\ \A id \in CreatedNow : tracked_objects[id].bboxes = <<detections[1].bbox>>

====
